---- MODULE Spec2Model ----
(***************************************************************************)
(* Model of the pinner service (SkynetLabs/pinner): the skylink store     *)
(* with its find-and-lock primitive, the skyd client's cache of pinned    *)
(* skylinks and its rebuild, the Sweeper and the Scanner.                  *)
(*                                                                         *)
(* The document store is modelled at the level of the documents the       *)
(* queries of src/database/skylink.go read and write: one document per    *)
(* skylink, each single-document update atomic.  Time is a global         *)
(* discrete clock `now`; durations are scaled to clock ticks.             *)
(***************************************************************************)
EXTENDS FiniteSets, Integers, Sequences, TLC

(***************************************************************************)
(* Bounds of the model.                                                    *)
(***************************************************************************)
NumServers == 2
NumSkylinks == 1
MaxTime == 4
MaxMinPinners == 2
NumCacheSkylinks == 2
MaxDiffLen == 3
NumDirs == 2
NumCallers == 2
MaxChannels == 2
NumSweeps == 2
NumSweepSkylinks == 3
NumWorkerSkylinks == 2
MaxSweepTime == 2
MaxPinCalls == 2
MaxHealthChecks == 4
MaxUpdates == 3
MaxPeriod == 2

ServerNames == <<"S1", "S2", "S3", "S4">>
SkylinkNames == <<"A", "B", "C", "D">>
Servers == {ServerNames[i] : i \in 1..NumServers}
Skylinks == {SkylinkNames[i] : i \in 1..NumSkylinks}
CacheSkylinks == {SkylinkNames[i] : i \in 1..NumCacheSkylinks}
Dirs == 1..NumDirs
Callers == 1..NumCallers
Sweeps == 1..NumSweeps
SweepSkylinks == {SkylinkNames[i] : i \in 1..NumSweepSkylinks}
WorkerSkylinks == {SkylinkNames[i] : i \in 1..NumWorkerSkylinks}
\* The server whose process is modelled where only one is.
Me == "S1"

(***************************************************************************)
(* Program constants.                                                      *)
(***************************************************************************)
\* database.LockDuration (7 hours), in clock ticks.
LockDuration == 2
\* conf.defaultMinPinners, minPinnersMinValue and maxPinnersMinValue.
defaultMinPinners == 1
minPinnersMinValue == 1
maxPinnersMinValue == 10
\* time.Time{}: the zero instant, earlier than every reading of the clock.
ZeroTime == 0
\* A document field that does not exist.
Absent == -1
\* locked_by of a document nobody has locked.
NoServer == ""
NoSkylink == ""

Nil == "nil"
ErrSkylinkExists == "skylink already exists"
ErrNoSkylinksLocked == "no skylinks locked"
ErrNoUnderpinnedSkylinks == "no underpinned skylinks found"
ErrWalk == "failed to fetch skynet directories from skyd"
ErrNoRebuildInProgress == "no rebuild in progress"
ErrInNeedsArray == "$in needs an array"
ErrDuplicateKey == "duplicate key"
ErrStore == "store call failed"
ErrSizeOfMissing == "The argument to $size must be an array"
ErrFetchSkylinks == "failed to fetch skylinks for server"
ErrRebuildCache == "failed to rebuild skyd cache"
ErrRemoveServer == "failed to remove server for skylink"
ErrAddServer == "failed to add server for skylink"
ErrDryRun == "dry run"
ErrUnrecoverable == "unrecoverable error while pinning"
ErrPin == "failed to pin"
ErrSkylinkAlreadyPinned == "skylink already pinned"
ErrInvalidSkylink == "invalid skylink"
\* A run-time panic that nothing recovers.
Panic == "panic"

VARIABLES
    records,    \* the skylinks collection: skylink -> document
    now,        \* the clock
    ret,        \* the last store call and what it returned
    held,       \* per server: skylink -> expiry of the lock it was handed and
                \* has not released (ZeroTime when it holds none)
    skylinks,   \* per server: psc.skylinks, the cache of pinned skylinks
    rebuildCh,  \* psc.rebuildCh: the channel of the current rebuild
    chClosed,   \* the channels that are closed
    chMade,     \* how many channels managedSignalRebuildStart has made
    fsFiles,    \* per server: directory -> skylinks on the files skyd holds
    cPc,        \* per RebuildCache caller: where it is
    cSls,       \* per caller: sls, the set it collects
    cDirs,      \* per caller: dirsToWalk
    cCh,        \* per caller: the channel blockingWaitForRebuild receives on
    cRes,       \* per caller: what RebuildCache returned
    status,     \* Sweeper.staticStatus: the status of the latest sweep
    swPc,       \* per threadedPerformSweep goroutine: where it is
    swErr,      \* per goroutine: its variable err
    swDb,       \* per goroutine: dbSkylinks
    swUnknown,  \* per goroutine: unknown, of DiffPinnedSkylinks
    swMissing,  \* per goroutine: missing, of DiffPinnedSkylinks
    swRes,      \* per goroutine: res, the result handle of the rebuild
    rbErr,      \* per channel: ExternErr of the rebuild that closed it
    scPc,       \* per server: where its Scanner goroutine is
    scSl,       \* per Scanner: sl, the skylink FindAndLockUnderpinned gave
    scErr,      \* per Scanner: err of managedFindAndPinOneUnderpinnedSkylink
    scCont,     \* per Scanner: continueScanning of the same
    scDryRun,   \* per Scanner: s.dryRun
    scMinPinners, \* per Scanner: s.minPinners
    pinCalls,   \* per server and skylink: the Pin calls of its Scanner
    conf,       \* the cluster-wide configuration in the store
    faults,     \* whether calls to the store and to skyd can fail
    stopped,    \* per server: the stop channel of the Scanner is closed
    dIn,        \* sls, the list the latest Diff call was given
    dUnknown,   \* unknown, the first list that call returned
    dMissing,   \* missing, the second list that call returned
    unpinRes,   \* what the latest Unpin call of the skyd client came to
    srvArr,     \* skylink -> the servers array of its document, as stored
    hPc,        \* managedWaitUntilHealthy: where it is
    hNeedsRepair, \* whether skyd reports that the file needs repair
    hTimer,     \* deadlineTimer: armed, fired (a value is on C), drained
                \* (the value was received) or stopped
    hChecks,    \* the FileHealth calls of this wait
    schPeriod,  \* schedule.period
    schCancelCh, \* schedule.cancelCh: 0 is nil, n the channel of the nth Update
    schClosed,  \* the schedule channels that are closed
    tasks,      \* per Update call: the goroutine it started
    sweptBy,    \* the task that made the latest Sweep call, 0 before any
    wOp,        \* the operation on the status that holds its mutex
    wPc,        \* how many fields that operation has written
    snap,       \* the copy a Status call is making
    unpinCall,  \* the Unpin call of the skyd client that is under way
    pinCall,    \* the Pin call of the skyd client that is under way
    pinReq,     \* the POST /pin request that is under way
    scRes,      \* per Scanner: res, the channel of the rebuild it awaits
    otherCh,    \* per server other than this one: the rebuildCh of its cache
    snapRead    \* the fields that call has copied

storeVars == <<records, now, ret, held>>
cacheVars == <<skylinks, rebuildCh, chClosed, chMade, fsFiles,
               cPc, cSls, cDirs, cCh, cRes>>
sweepVars == <<status, swPc, swErr, swDb, swUnknown, swMissing, swRes, rbErr>>
scanVars == <<scPc, scSl, scErr, scCont, scDryRun, scMinPinners, pinCalls,
              conf, faults, stopped>>
diffVars == <<dIn, dUnknown, dMissing, unpinRes>>
arrVars == <<srvArr>>
healthVars == <<hPc, hNeedsRepair, hTimer, hChecks>>
\* The variables of the parts that are looked at by themselves.
schedVars == <<schPeriod, schCancelCh, schClosed, tasks, sweptBy>>
statusVars == <<wOp, wPc, snap, snapRead>>
callVars == <<unpinCall, pinCall, pinReq, scRes, otherCh>>
asideVars == <<diffVars, arrVars, healthVars, schedVars, statusVars, callVars>>
vars == <<storeVars, cacheVars, sweepVars, scanVars, asideVars>>
exceptStore == <<cacheVars, sweepVars, scanVars, asideVars>>
exceptCache == <<storeVars, sweepVars, scanVars, asideVars>>

(***************************************************************************)
(* Documents of the skylinks collection (database.Skylink).  `pinned` is   *)
(* "true", "false" or "absent" (a document upserted without the field);    *)
(* `hasServers` tells whether the document has a servers array at all: an  *)
(* upsert of MarkPinned or MarkUnpinned writes none.                       *)
(***************************************************************************)
NoRecord ==
    [exists |-> FALSE, hasServers |-> FALSE, servers |-> {},
     pinned |-> "absent", lockedBy |-> NoServer, lockExpires |-> Absent]

\* The document CreateSkylink inserts: the struct is written whole, so
\* locked_by is "" and lock_expires is the zero time.
NewSkylink(server) ==
    [exists |-> TRUE, hasServers |-> TRUE, servers |-> {server},
     pinned |-> "true", lockedBy |-> NoServer, lockExpires |-> ZeroTime]

\* The document an upsert inserts before its update is applied: it has the
\* fields of the filter only.
UpsertedSkylink ==
    [exists |-> TRUE, hasServers |-> FALSE, servers |-> {},
     pinned |-> "absent", lockedBy |-> NoServer, lockExpires |-> Absent]

\* The "$or" of the filter of FindAndLockUnderpinned: the lock is free.
MutUnlockedFilter(r, t) == TRUE
MutUnlockedFilterAbsent(r, t) == r.lockExpires = Absent
UnlockedFilter(r, t) ==
    r.lockExpires = Absent \/ r.lockExpires < t

\* {"$size": "$servers"} of the filter of FindAndLockUnderpinned: the store
\* fails the whole call when it evaluates the expression on a document
\* that has no servers array.
SizeFails(r) == r.exists /\ ~r.hasServers

\* The whole filter of FindAndLockUnderpinned: the documents it matches.
\* The size of the servers array is taken of a document that has one.
MutUnderpinnedFilterOwn(r, server, minPinners, t) ==
    /\ r.exists
    /\ r.pinned # "false"
    /\ r.hasServers
    /\ Cardinality(r.servers) < minPinners
    /\ UnlockedFilter(r, t)
MutUnderpinnedFilterLocked(r, server, minPinners, t) ==
    /\ r.exists
    /\ r.pinned # "false"
    /\ r.hasServers
    /\ Cardinality(r.servers) < minPinners
    /\ server \notin r.servers
UnderpinnedFilter(r, server, minPinners, t) ==
    /\ r.exists
    /\ r.pinned # "false"
    /\ r.hasServers
    /\ Cardinality(r.servers) < minPinners
    /\ server \notin r.servers
    /\ UnlockedFilter(r, t)

\* The documents FindOneAndUpdate of FindAndLockUnderpinned can pick.
Underpinned(recs, server, minPinners, t) ==
    {sl \in DOMAIN recs :
        UnderpinnedFilter(recs[sl], server, minPinners, t)}

\* Whether "$size" fails the call.  The store examines the documents in an
\* order of its own until one matches, and evaluates the conditions of the
\* filter on a document in an order of its own: it can come to "$size" on
\* any document without servers array, and it has to on one for which
\* the other conditions hold ("$nin" holds for a missing array).
SizeCanFail(recs) == \E sl \in DOMAIN recs : SizeFails(recs[sl])
SizeMustFail(recs, t) ==
    \E sl \in DOMAIN recs :
        /\ SizeFails(recs[sl])
        /\ recs[sl].pinned # "false"
        /\ UnlockedFilter(recs[sl], t)

\* The "$set" of FindAndLockUnderpinned.
MutLockUpdateNoExpiry(r, server, t) == [r EXCEPT !.lockedBy = server]
LockUpdate(r, server, t) ==
    [r EXCEPT !.lockedBy = server, !.lockExpires = t + LockDuration]

\* The filter of UnlockSkylink.
MutLockedByFilter(r, server) == r.exists /\ r.lockedBy # NoServer
LockedByFilter(r, server) == r.exists /\ r.lockedBy = server

\* The "$set" of UnlockSkylink.
MutUnlockUpdateKeepsExpiry(r) == [r EXCEPT !.lockedBy = NoServer]
UnlockUpdate(r) ==
    [r EXCEPT !.lockedBy = NoServer, !.lockExpires = ZeroTime]

\* The update of AddServerForSkylinks on one document, upserting it:
\* "$addToSet" makes the servers array of a document that has none.
MutAddServerUpdateSetsPinned(r, server, markPinned) ==
    LET d == IF r.exists THEN r ELSE UpsertedSkylink
    IN  [d EXCEPT !.hasServers = TRUE,
                  !.servers = d.servers \cup {server},
                  !.pinned = IF markPinned THEN "true" ELSE "false"]
AddServerUpdate(r, server, markPinned) ==
    LET d == IF r.exists THEN r ELSE UpsertedSkylink
    IN  [d EXCEPT !.hasServers = TRUE,
                  !.servers = d.servers \cup {server},
                  !.pinned = IF markPinned THEN "true" ELSE d.pinned]

\* The documents the filter {skylink: {$in: skylinks}} matches.  The
\* document filed under NoSkylink has no skylink field and matches no list.
Matched(recs, sls) ==
    {sl \in (sls \cap DOMAIN recs) \ {NoSkylink} : recs[sl].exists}

\* The document an UpdateMany with upsert inserts when the filter matches
\* nothing: a single one, which takes its skylink from the filter only when
\* the filter is an equality, that is when the list has one element.
UpsertKey(sls) ==
    IF Cardinality(sls) = 1 THEN CHOOSE sl \in sls : TRUE ELSE NoSkylink

\* What AddServerForSkylinks(skylinks, server, markPinned) returns.  The
\* lists the program passes are never empty and non-nil: an empty list is
\* the nil slice of Diff, which is encoded as null and refused by "$in".
\* A second document without skylink violates the unique index.
AddServerErr(recs, sls) ==
    IF sls = {} THEN ErrInNeedsArray
    ELSE IF /\ Matched(recs, sls) = {}
            /\ UpsertKey(sls) = NoSkylink
            /\ recs[NoSkylink].exists
         THEN ErrDuplicateKey
         ELSE Nil

\* The collection after AddServerForSkylinks(skylinks, server, markPinned):
\* one UpdateMany with upsert.
AddServerForSkylinks(recs, sls, server, markPinned) ==
    IF AddServerErr(recs, sls) # Nil THEN recs
    ELSE IF Matched(recs, sls) # {}
         THEN [sl \in DOMAIN recs |->
                 IF sl \in Matched(recs, sls)
                 THEN AddServerUpdate(recs[sl], server, markPinned)
                 ELSE recs[sl]]
         ELSE [recs EXCEPT ![UpsertKey(sls)] =
                 AddServerUpdate(NoRecord, server, markPinned)]

\* What RemoveServerFromSkylinks(skylinks, server) returns.
RemoveServerErr(sls) ==
    IF sls = {} THEN ErrInNeedsArray ELSE Nil

\* The collection after RemoveServerFromSkylinks(skylinks, server): one
\* UpdateMany without upsert.
RemoveServerFromSkylinks(recs, sls, server) ==
    [sl \in DOMAIN recs |->
        IF sl \in Matched(recs, sls) /\ server \in recs[sl].servers
        THEN [recs[sl] EXCEPT !.servers = recs[sl].servers \ {server}]
        ELSE recs[sl]]

\* SkylinksForServer(server): the skylinks whose document lists the server.
SkylinksForServer(recs, server) ==
    {sl \in DOMAIN recs : recs[sl].exists /\ server \in recs[sl].servers}

\* The collection after MarkUnpinned / MarkPinned of a skylink (an upsert).
MarkPinnedUpdate(recs, sl, value) ==
    [recs EXCEPT ![sl] =
        [(IF recs[sl].exists THEN recs[sl] ELSE UpsertedSkylink)
            EXCEPT !.pinned = value]]

Call(op, server, skylink, minPinners, err) ==
    [op |-> op, server |-> server, skylink |-> skylink,
     minPinners |-> minPinners, err |-> err]

\* The store before any skylink is known, and servers holding no lock.
NoHold == [sl \in Skylinks |-> ZeroTime]

StoreInit ==
    /\ records = [sl \in Skylinks |-> NoRecord]
    /\ now = 1
    /\ ret = Call("none", NoServer, NoSkylink, 0, Nil)
    /\ held = [s \in Servers |-> NoHold]

\* The Sweeper as New leaves it, with no sweep started.
NoStatus ==
    [InProgress |-> FALSE, Error |-> Nil,
     StartTime |-> ZeroTime, EndTime |-> ZeroTime]

\* No operation holds the mutex of the status.
NoWriter == [op |-> "none", g |-> 0]

SweeperIdle ==
    /\ status = NoStatus
    /\ swPc = [g \in Sweeps |-> "idle"]
    /\ swErr = [g \in Sweeps |-> Nil]
    /\ swDb = [g \in Sweeps |-> {}]
    /\ swUnknown = [g \in Sweeps |-> {}]
    /\ swMissing = [g \in Sweeps |-> {}]
    /\ swRes = [g \in Sweeps |-> 0]
    /\ rbErr = [c \in 0..MaxChannels |-> Nil]

\* The Scanners as NewScanner leaves them, none started, and an empty
\* configuration collection.
NoConf == [dryRun |-> FALSE, minPinners |-> defaultMinPinners]

ScannerIdle ==
    /\ scPc = [s \in Servers |-> "off"]
    /\ scSl = [s \in Servers |-> NoSkylink]
    /\ scErr = [s \in Servers |-> Nil]
    /\ scCont = [s \in Servers |-> FALSE]
    /\ scDryRun = [s \in Servers |-> FALSE]
    /\ scMinPinners = [s \in Servers |-> defaultMinPinners]
    /\ pinCalls = [s \in Servers |-> [sl \in Skylinks |-> 0]]
    /\ conf = NoConf
    /\ faults = FALSE
    /\ stopped = [s \in Servers |-> FALSE]

(***************************************************************************)
(* The cache of pinned skylinks and its rebuild (SpecCache):               *)
(* pinnedSkylinksCache of src/skyd/cache.go and client.RebuildCache.       *)
(***************************************************************************)
\* skymodules.SkynetFolder, the directory the walk starts from.
SkynetFolder == 1

\* The directories skyd keeps under a directory: a tree laid out as a heap.
SubDirs[d \in Dirs] == {c \in Dirs : c >= 2 /\ c \div 2 = d}

\* The directories of a set in the order skyd lists them.
SetToSeq[S \in SUBSET Dirs] ==
    CHOOSE q \in [1..Cardinality(S) -> S] :
        \A i, j \in 1..Cardinality(S) : i < j => q[i] < q[j]

\* What RenterDirRootGet(dir) returns: the skylinks of the files of the
\* directory, and the directory itself followed by its subdirectories.
RenterDirRootGet(fs, dir) ==
    [Files |-> fs[dir], Directories |-> <<dir>> \o SetToSeq[SubDirs[dir]]]

\* The subdirectories RebuildCache queues: all but the first element.
MutQueuedDirs(rd) == <<>>
QueuedDirs(rd) ==
    SubSeq(rd.Directories, 2, Len(rd.Directories))

\* managedIsRebuildInProgress: the current channel is still open.
IsRebuildInProgress == rebuildCh \notin chClosed

\* No document, seen through its servers array.
NoArray == [exists |-> FALSE, servers |-> <<>>]

\* No goroutine: the Update call of this number was not made yet.
NoTask == [pc |-> "none", period |-> 0, ch |-> 0]

\* No call of the skyd client and no request under way.
NoCall == [pc |-> "idle", sl |-> NoSkylink, err |-> Nil]

NoCacheCalls ==
    /\ cPc = [p \in Callers |-> "idle"]
    /\ cSls = [p \in Callers |-> {}]
    /\ cDirs = [p \in Callers |-> <<>>]
    /\ cCh = [p \in Callers |-> 0]
    /\ cRes = [p \in Callers |-> Nil]
    /\ dIn = <<>>
    /\ dUnknown = <<>>
    /\ dMissing = {}
    /\ unpinRes = "none"
    /\ srvArr = [sl \in SweepSkylinks \cup {NoSkylink} |-> NoArray]
    /\ hPc = "off"
    /\ hNeedsRepair = FALSE
    /\ hTimer = "none"
    /\ hChecks = 0
    /\ schPeriod = 0
    /\ schCancelCh = 0
    /\ schClosed = {}
    /\ tasks = [i \in 1..MaxUpdates |-> NoTask]
    /\ sweptBy = 0
    /\ wOp = NoWriter
    /\ wPc = 0
    /\ snap = NoStatus
    /\ snapRead = {}
    /\ unpinCall = NoCall
    /\ pinCall = NoCall
    /\ pinReq = NoCall
    /\ scRes = [s \in Servers |-> 0]
    /\ otherCh = [s \in Servers |-> 0]

\* The cache as init() leaves it, on servers whose skyd holds nothing.
CacheIdle ==
    /\ skylinks = [s \in Servers |-> {}]
    /\ rebuildCh = 0
    /\ chClosed = {0}
    /\ chMade = 0
    /\ fsFiles = [s \in Servers |-> [d \in Dirs |-> {}]]
    /\ NoCacheCalls

\* The cache of a server whose skyd holds some files.
InitCache ==
    /\ StoreInit
    /\ skylinks = [s \in Servers |-> {}]
    /\ rebuildCh = 0
    /\ chClosed = {0}
    /\ chMade = 0
    /\ fsFiles \in [Servers -> [Dirs -> SUBSET CacheSkylinks]]
    /\ \A s \in Servers \ {Me} : \A d \in Dirs : fsFiles[s][d] = {}
    /\ NoCacheCalls
    /\ SweeperIdle
    /\ ScannerIdle

cacheLocals == <<cSls, cDirs, cCh, cRes>>
cacheShared == <<skylinks, rebuildCh, chClosed, chMade, fsFiles>>

\* A goroutine calls RebuildCache.
CallRebuildCache(p) ==
    /\ cPc[p] = "idle"
    /\ cPc' = [cPc EXCEPT ![p] = "start_check"]
    /\ cRes' = [cRes EXCEPT ![p] = Nil]
    /\ UNCHANGED <<cSls, cDirs, cCh, cacheShared, exceptCache>>

\* managedSignalRebuildStart, first half: the check, under the mutex.  A
\* rebuild in progress sends the caller to blockingWaitForRebuild.
SignalRebuildStartCheck(p) ==
    /\ cPc[p] = "start_check"
    /\ cPc' = [cPc EXCEPT ![p] = IF IsRebuildInProgress THEN "wait"
                                 ELSE "start_make"]
    /\ UNCHANGED <<cacheLocals, cacheShared, exceptCache>>

\* managedSignalRebuildStart, second half: a new channel, under the mutex
\* taken again; then sls and dirsToWalk are initialised.
SignalRebuildStartMake(p) ==
    /\ cPc[p] = "start_make"
    /\ chMade < MaxChannels
    /\ chMade' = chMade + 1
    /\ rebuildCh' = chMade + 1
    /\ cSls' = [cSls EXCEPT ![p] = {}]
    /\ cDirs' = [cDirs EXCEPT ![p] = <<SkynetFolder>>]
    /\ cPc' = [cPc EXCEPT ![p] = "walk"]
    /\ UNCHANGED <<skylinks, chClosed, fsFiles, cCh, cRes, exceptCache>>

\* blockingWaitForRebuild: the receive evaluates psc.rebuildCh ...
WaitForRebuildRead(p) ==
    /\ cPc[p] = "wait"
    /\ cCh' = [cCh EXCEPT ![p] = rebuildCh]
    /\ cPc' = [cPc EXCEPT ![p] = "blocked"]
    /\ UNCHANGED <<cSls, cDirs, cRes, cacheShared, exceptCache>>

\* ... and returns once that channel is closed; RebuildCache returns nil.
WaitForRebuildDone(p) ==
    /\ cPc[p] = "blocked"
    /\ cCh[p] \in chClosed
    /\ cPc' = [cPc EXCEPT ![p] = "done"]
    /\ cRes' = [cRes EXCEPT ![p] = Nil]
    /\ UNCHANGED <<cSls, cDirs, cCh, cacheShared, exceptCache>>

\* One iteration of the walk: pop a directory, read it, collect the
\* skylinks of its files and queue its subdirectories.
WalkDir(p) ==
    /\ cPc[p] = "walk"
    /\ cDirs[p] # <<>>
    /\ LET rd == RenterDirRootGet(fsFiles[Me], Head(cDirs[p]))
       IN  /\ cSls' = [cSls EXCEPT ![p] = cSls[p] \cup rd.Files]
           /\ cDirs' = [cDirs EXCEPT ![p] = Tail(cDirs[p]) \o QueuedDirs(rd)]
    /\ UNCHANGED <<cPc, cCh, cRes, cacheShared, exceptCache>>

\* The walk fails: RenterDirRootGet returns an error and RebuildCache
\* returns it.
MutWalkFails(p) ==
    /\ cPc[p] = "walk"
    /\ cDirs[p] # <<>>
    /\ skylinks' = [skylinks EXCEPT ![Me] = cSls[p]]
    /\ cPc' = [cPc EXCEPT ![p] = "done"]
    /\ cRes' = [cRes EXCEPT ![p] = ErrWalk]
    /\ UNCHANGED <<cSls, cDirs, cCh, rebuildCh, chClosed, chMade, fsFiles,
                   exceptCache>>
WalkFails(p) ==
    /\ cPc[p] = "walk"
    /\ cDirs[p] # <<>>
    /\ cPc' = [cPc EXCEPT ![p] = "done"]
    /\ cRes' = [cRes EXCEPT ![p] = ErrWalk]
    /\ UNCHANGED <<cSls, cDirs, cCh, cacheShared, exceptCache>>

\* managedReplaceCache(sls), once dirsToWalk is empty.
ReplaceCache(p) ==
    /\ cPc[p] = "walk"
    /\ cDirs[p] = <<>>
    /\ skylinks' = [skylinks EXCEPT ![Me] = cSls[p]]
    /\ cPc' = [cPc EXCEPT ![p] = "end_check"]
    /\ UNCHANGED <<cacheLocals, rebuildCh, chClosed, chMade, fsFiles,
                   exceptCache>>

\* managedSignalRebuildEnd, first half: the check.  With no rebuild in
\* progress it returns ErrNoRebuildInProgress, which RebuildCache reports
\* with build.Critical before returning nil.
SignalRebuildEndCheck(p) ==
    /\ cPc[p] = "end_check"
    /\ IF IsRebuildInProgress
       THEN /\ cPc' = [cPc EXCEPT ![p] = "end_close"]
            /\ cRes' = cRes
       ELSE /\ cPc' = [cPc EXCEPT ![p] = "critical"]
            /\ cRes' = [cRes EXCEPT ![p] = Nil]
    /\ UNCHANGED <<cSls, cDirs, cCh, cacheShared, exceptCache>>

\* managedSignalRebuildEnd, second half: close(psc.rebuildCh); closing a
\* closed channel panics.
SignalRebuildEndClose(p) ==
    /\ cPc[p] = "end_close"
    /\ IF rebuildCh \in chClosed
       THEN /\ cPc' = [cPc EXCEPT ![p] = "panic"]
            /\ chClosed' = chClosed
       ELSE /\ cPc' = [cPc EXCEPT ![p] = "done"]
            /\ chClosed' = chClosed \cup {rebuildCh}
    /\ cRes' = [cRes EXCEPT ![p] = Nil]
    /\ UNCHANGED <<cSls, cDirs, cCh, skylinks, rebuildCh, chMade, fsFiles,
                   exceptCache>>

\* The caller has its result and may call again.
RebuildCacheReturn(p) ==
    /\ cPc[p] \in {"done", "critical"}
    /\ cPc' = [cPc EXCEPT ![p] = "idle"]
    /\ UNCHANGED <<cacheLocals, cacheShared, exceptCache>>

\* Add(skylink) and Remove(skylink), as Pin and Unpin call them.
MutCacheAdd(sl) ==
    /\ sl \notin skylinks[Me]
    /\ skylinks' = [skylinks EXCEPT ![Me] = CacheSkylinks]
    /\ UNCHANGED <<cPc, cacheLocals, rebuildCh, chClosed, chMade, fsFiles,
                   exceptCache>>
CacheAdd(sl) ==
    /\ sl \notin skylinks[Me]
    /\ skylinks' = [skylinks EXCEPT ![Me] = skylinks[Me] \cup {sl}]
    /\ UNCHANGED <<cPc, cacheLocals, rebuildCh, chClosed, chMade, fsFiles,
                   exceptCache>>

CacheRemove(sl) ==
    /\ sl \in skylinks[Me]
    /\ skylinks' = [skylinks EXCEPT ![Me] = skylinks[Me] \ {sl}]
    /\ UNCHANGED <<cPc, cacheLocals, rebuildCh, chClosed, chMade, fsFiles,
                   exceptCache>>

NextCache ==
    \/ \E p \in Callers : CallRebuildCache(p)
    \/ \E p \in Callers : SignalRebuildStartCheck(p)
    \/ \E p \in Callers : SignalRebuildStartMake(p)
    \/ \E p \in Callers : WaitForRebuildRead(p)
    \/ \E p \in Callers : WaitForRebuildDone(p)
    \/ \E p \in Callers : WalkDir(p)
    \/ \E p \in Callers : WalkFails(p)
    \/ \E p \in Callers : ReplaceCache(p)
    \/ \E p \in Callers : SignalRebuildEndCheck(p)
    \/ \E p \in Callers : SignalRebuildEndClose(p)
    \/ \E p \in Callers : RebuildCacheReturn(p)
    \/ \E sl \in CacheSkylinks : CacheAdd(sl)
    \/ \E sl \in CacheSkylinks : CacheRemove(sl)

SpecCache == InitCache /\ [][NextCache]_vars

(***************************************************************************)
(* Claims about the rebuild of the cache.                                  *)
(***************************************************************************)
\* The callers that are walking skyd's directories.
Walking == {p \in Callers : cPc[p] = "walk"}

\* C5: under any number of concurrent RebuildCache callers at most one
\* directory walk is in progress at any time.
C5_AtMostOneWalk == Cardinality(Walking) <= 1

\* C10: a rebuild whose walk fails leaves the cache as it is, at the
\* failure and at every step it took before, and RebuildCache returns the
\* failure to its caller.
C10_FailedWalkKeepsCache ==
    [][\A p \in Callers :
        /\ (cPc[p] \in {"start_check", "start_make", "walk"}
              /\ <<cPc[p], cSls[p], cDirs[p]>>' # <<cPc[p], cSls[p], cDirs[p]>>
              /\ ~(cPc[p] = "walk" /\ cDirs[p] = <<>>))
           => skylinks' = skylinks
        /\ (cPc[p] = "walk" /\ cPc'[p] = "done")
           => (cRes'[p] = ErrWalk /\ skylinks' = skylinks)]_vars

\* A walk failed after it had collected skylinks the cache does not hold.
C10_Witness ==
    \E p \in Callers :
        /\ cPc[p] = "done"
        /\ cRes[p] = ErrWalk
        /\ cSls[p] # {}
        /\ cSls[p] # skylinks[Me]

(***************************************************************************)
(* The store, called directly by the servers (Spec).                       *)
(***************************************************************************)
Init ==
    /\ StoreInit
    /\ CacheIdle
    /\ SweeperIdle
    /\ ScannerIdle

CreateSkylink(sl, server) ==
    /\ IF records[sl].exists
       THEN /\ records' = records
            /\ ret' = Call("CreateSkylink", server, sl, 0, ErrSkylinkExists)
       ELSE /\ records' = [records EXCEPT ![sl] = NewSkylink(server)]
            /\ ret' = Call("CreateSkylink", server, sl, 0, Nil)
    /\ UNCHANGED <<now, held, exceptStore>>

\* AddServerForSkylinks as the pin handler calls it, for one skylink.
StoreAddServer(sls, server, markPinned) ==
    /\ records' = AddServerForSkylinks(records, sls, server, markPinned)
    /\ ret' = Call("AddServerForSkylinks", server, NoSkylink, 0,
                   AddServerErr(records, sls))
    /\ UNCHANGED <<now, held, exceptStore>>

StoreRemoveServer(sls, server) ==
    /\ records' = RemoveServerFromSkylinks(records, sls, server)
    /\ ret' = Call("RemoveServerFromSkylinks", server, NoSkylink, 0,
                   RemoveServerErr(sls))
    /\ UNCHANGED <<now, held, exceptStore>>

MarkUnpinned(sl) ==
    /\ records' = MarkPinnedUpdate(records, sl, "false")
    /\ ret' = Call("MarkUnpinned", NoServer, sl, 0, Nil)
    /\ UNCHANGED <<now, held, exceptStore>>

MarkPinned(sl) ==
    /\ records' = MarkPinnedUpdate(records, sl, "true")
    /\ ret' = Call("MarkPinned", NoServer, sl, 0, Nil)
    /\ UNCHANGED <<now, held, exceptStore>>

\* FindAndLockUnderpinned(server, minPinners): one FindOneAndUpdate.  The
\* call can fail in the store or on the way to it, and it fails on "$size"
\* of a document without servers array: sr.Err() is returned as it is and
\* nothing is written.  A selected document without skylink is locked too,
\* and SkylinkFromString then refuses its empty skylink.
FindAndLockUnderpinned(server, minPinners) ==
    LET found == Underpinned(records, server, minPinners, now)
    IN  /\ \/ /\ records' = records
              /\ held' = held
              /\ ret' = Call("FindAndLockUnderpinned", server, NoSkylink,
                             minPinners, ErrStore)
           \/ /\ SizeCanFail(records)
              /\ records' = records
              /\ held' = held
              /\ ret' = Call("FindAndLockUnderpinned", server, NoSkylink,
                             minPinners, ErrSizeOfMissing)
           \/ /\ found = {}
              /\ ~SizeMustFail(records, now)
              /\ records' = records
              /\ held' = held
              /\ ret' = Call("FindAndLockUnderpinned", server, NoSkylink,
                             minPinners, ErrNoUnderpinnedSkylinks)
           \/ \E sl \in found :
                /\ records' = [records EXCEPT
                                 ![sl] = LockUpdate(records[sl], server, now)]
                /\ IF sl = NoSkylink
                   THEN /\ held' = held
                        /\ ret' = Call("FindAndLockUnderpinned", server,
                                       NoSkylink, minPinners,
                                       ErrInvalidSkylink)
                   ELSE /\ held' = [held EXCEPT
                                      ![server][sl] = now + LockDuration]
                        /\ ret' = Call("FindAndLockUnderpinned", server, sl,
                                       minPinners, Nil)
        /\ UNCHANGED <<now, exceptStore>>

\* UnlockSkylink(skylink, server): one UpdateOne; zero modified documents
\* is ErrNoSkylinksLocked. When the UpdateOne itself fails the code reads
\* ModifiedCount of the nil result and panics: that call writes nothing and
\* returns nothing, so the document, the lock and the last returned call
\* stay as they are.
UnlockSkylink(sl, server) ==
    \/ /\ IF LockedByFilter(records[sl], server)
          THEN /\ records' = [records EXCEPT ![sl] = UnlockUpdate(records[sl])]
               /\ ret' = Call("UnlockSkylink", server, sl, 0, Nil)
          ELSE /\ records' = records
               /\ ret' = Call("UnlockSkylink", server, sl, 0,
                              ErrNoSkylinksLocked)
       /\ held' = [held EXCEPT ![server][sl] = ZeroTime]
       /\ UNCHANGED <<now, exceptStore>>
    \/ UNCHANGED <<records, held, ret, now, exceptStore>>

\* Time passes.
Tick ==
    /\ now < MaxTime
    /\ now' = now + 1
    /\ ret' = Call("Tick", NoServer, NoSkylink, 0, Nil)
    /\ UNCHANGED <<records, held, exceptStore>>

Next ==
    \/ \E sl \in Skylinks, s \in Servers : CreateSkylink(sl, s)
    \/ \E sl \in Skylinks, s \in Servers, mp \in BOOLEAN :
          StoreAddServer({sl}, s, mp)
    \/ \E sls \in SUBSET Skylinks, s \in Servers : StoreRemoveServer(sls, s)
    \/ \E sl \in Skylinks : MarkUnpinned(sl)
    \/ \E sl \in Skylinks : MarkPinned(sl)
    \/ \E s \in Servers, mp \in 1..MaxMinPinners : FindAndLockUnderpinned(s, mp)
    \/ \E sl \in Skylinks, s \in Servers : UnlockSkylink(sl, s)
    \/ Tick

Spec == Init /\ [][Next]_vars

(***************************************************************************)
(* Claims about the store.                                                 *)
(***************************************************************************)
\* A server holds an unexpired lock on a skylink.
HoldsLiveLock(s, sl) == held[s][sl] > now

\* C1: no two different servers hold an unexpired lock on the same skylink
\* at the same time, whatever the interleaving of FindAndLockUnderpinned and
\* UnlockSkylink calls.
C1_MutualExclusion ==
    \A sl \in Skylinks, s1 \in Servers, s2 \in Servers :
        s1 # s2 => ~(HoldsLiveLock(s1, sl) /\ HoldsLiveLock(s2, sl))

\* A server holds a live lock and another server's FindAndLockUnderpinned,
\* for which the skylink would otherwise be a candidate, came back empty.
C1_Witness ==
    \E sl \in Skylinks, s1 \in Servers :
        /\ HoldsLiveLock(s1, sl)
        /\ ret.op = "FindAndLockUnderpinned"
        /\ ret.server # s1
        /\ ret.err = ErrNoUnderpinnedSkylinks
        /\ records[sl].pinned # "false"
        /\ ret.server \notin records[sl].servers
        /\ Cardinality(records[sl].servers) < ret.minPinners

\* C2: a skylink returned by FindAndLockUnderpinned(server, minPinners)
\* belonged, when it was selected, to a document that was not unpinned, had
\* fewer than minPinners servers, did not list the caller and carried no
\* unexpired lock of any server.
C2_SelectedMatchesPredicate ==
    [][(ret'.op = "FindAndLockUnderpinned" /\ ret'.err = Nil) =>
        LET r == records[ret'.skylink]
        IN  /\ r.exists
            /\ r.pinned # "false"
            /\ Cardinality(r.servers) < ret'.minPinners
            /\ ret'.server \notin r.servers
            /\ ~(r.lockExpires > now)
            /\ \A s \in Servers : ~HoldsLiveLock(s, ret'.skylink)]_vars

\* A lock was handed out on a document whose earlier lock, taken by the
\* caller itself or by another server, had expired.
C2_Witness ==
    /\ ret.op = "FindAndLockUnderpinned"
    /\ ret.err = Nil
    /\ records[ret.skylink].lockedBy = ret.server
    /\ \E s \in Servers : s # ret.server /\ held[s][ret.skylink] # ZeroTime

\* C3: UnlockSkylink(skylink, server) clears the lock when locked_by is the
\* server, and otherwise fails and leaves locked_by and lock_expires alone.
C3_UnlockOnlyByOwner ==
    [][ret'.op = "UnlockSkylink" =>
        LET sl == ret'.skylink
            r  == records[sl]
        IN  IF r.exists /\ r.lockedBy = ret'.server
            THEN /\ ret'.err = Nil
                 /\ records'[sl].lockedBy = NoServer
                 /\ records'[sl].lockExpires = ZeroTime
            ELSE /\ ret'.err = ErrNoSkylinksLocked
                 /\ records' = records]_vars

\* A server that does not own the lock tried to unlock and the live lock of
\* the owner is still there.
C3_Witness ==
    /\ ret.op = "UnlockSkylink"
    /\ ret.err = ErrNoSkylinksLocked
    /\ records[ret.skylink].lockedBy \notin {NoServer, ret.server}
    /\ records[ret.skylink].lockExpires > now
(***************************************************************************)
(* The Sweeper (SpecSweeper): threadedPerformSweep of                      *)
(* src/sweeper/sweeper.go, run by any number of Sweep calls of one server. *)
(***************************************************************************)
\* The set the walk of RebuildCache collects, from the directories queued.
RECURSIVE WalkFrom(_, _, _)
WalkFrom(fs, dirsToWalk, sls) ==
    IF dirsToWalk = <<>> THEN sls
    ELSE LET rd == RenterDirRootGet(fs, Head(dirsToWalk))
         IN  WalkFrom(fs, Tail(dirsToWalk) \o QueuedDirs(rd),
                      sls \cup rd.Files)

\* Diff(sls): unknown are the given skylinks the cache does not hold,
\* missing the skylinks of the cache that are not given.
Diff(cache, sls) ==
    [unknown |-> {sl \in sls : sl \notin cache},
     missing |-> {sl \in cache : sl \notin sls}]

\* status.Start at time t: no action when a sweep is in progress.
Start(st, t) ==
    IF st.InProgress THEN st
    ELSE [InProgress |-> TRUE, Error |-> Nil,
          StartTime |-> t, EndTime |-> ZeroTime]

\* status.Finalize(err) at time t.
MutFinalizeKeepsInProgress(st, err, t) ==
    [st EXCEPT !.EndTime = t, !.Error = err]
Finalize(st, err, t) ==
    [st EXCEPT !.InProgress = FALSE, !.EndTime = t, !.Error = err]

\* The argument of the deferred Finalize: the defer statement evaluates err
\* when it runs, right after the declaration of err, and not on return.
DeferredErr == Nil

\* Another server of the cluster.
Other == CHOOSE s \in Servers : s # Me

\* The directory in which skyd keeps the file of a skylink, if it has it.
HomeDir(sl) ==
    LET i == CHOOSE k \in 1..Len(SkylinkNames) : SkylinkNames[k] = sl
    IN  ((i - 1) % NumDirs) + 1

\* A cluster in which this server's skyd holds some files, each in its
\* directory, and the store has documents listing this or another server.
InitSweeper ==
    /\ records \in [SweepSkylinks \cup {NoSkylink} ->
                      {NoRecord, NewSkylink(Me), NewSkylink(Other)}]
    /\ records[NoSkylink] = NoRecord
    /\ now = 1
    /\ ret = Call("none", NoServer, NoSkylink, 0, Nil)
    /\ held = [s \in Servers |-> NoHold]
    /\ skylinks = [s \in Servers |-> {}]
    /\ rebuildCh = 0
    /\ chClosed = {0}
    /\ chMade = 0
    /\ fsFiles \in [Servers -> [Dirs -> SUBSET SweepSkylinks]]
    /\ \A s \in Servers \ {Me} : \A d \in Dirs : fsFiles[s][d] = {}
    /\ \A d \in Dirs : \A sl \in fsFiles[Me][d] : HomeDir(sl) = d
    /\ NoCacheCalls
    /\ SweeperIdle
    /\ ScannerIdle

exceptSweeper == <<ret, held, fsFiles, cPc, cSls, cDirs, cCh, cRes, scanVars,
                   asideVars>>
sweepLocals == <<swErr, swDb, swUnknown, swMissing, swRes>>
rebuildState == <<rebuildCh, chClosed, chMade, rbErr>>

\* Sweep(): go s.threadedPerformSweep().
Sweep(g) ==
    /\ swPc[g] = "idle"
    /\ swPc' = [swPc EXCEPT ![g] = "check"]
    /\ UNCHANGED <<records, now, skylinks, status, sweepLocals,
                   rebuildState, exceptSweeper>>

\* if s.staticStatus.InProgress { return }: read without the mutex.
SweepCheck(g) ==
    /\ swPc[g] = "check"
    /\ swPc' = [swPc EXCEPT ![g] = IF status.InProgress THEN "idle"
                                   ELSE "start"]
    /\ UNCHANGED <<records, now, skylinks, status, sweepLocals,
                   rebuildState, exceptSweeper>>

\* s.staticStatus.Start(), which returns nothing, then var err error and
\* the defer of Finalize.
SweepStart(g) ==
    /\ swPc[g] = "start"
    /\ status' = Start(status, now)
    /\ swErr' = [swErr EXCEPT ![g] = Nil]
    /\ swPc' = [swPc EXCEPT ![g] = "rebuild"]
    /\ UNCHANGED <<records, now, skylinks, swDb, swUnknown, swMissing, swRes,
                   rebuildState, exceptSweeper>>

\* The handle Rebuild returns: that of the rebuild in flight, or that of
\* the rebuild it starts in the background when none is in flight.
RebuildHandle ==
    IF IsRebuildInProgress THEN rebuildCh ELSE chMade + 1

\* res := s.staticSkydClient.RebuildCache(), which does not block.
SweepRebuild(g) ==
    /\ swPc[g] = "rebuild"
    /\ IsRebuildInProgress \/ chMade < MaxChannels
    /\ swRes' = [swRes EXCEPT ![g] = RebuildHandle]
    /\ rebuildCh' = RebuildHandle
    /\ chMade' = IF IsRebuildInProgress THEN chMade ELSE chMade + 1
    /\ swPc' = [swPc EXCEPT ![g] = "read"]
    /\ UNCHANGED <<records, now, skylinks, status, swErr, swDb, swUnknown,
                   swMissing, chClosed, rbErr, exceptSweeper>>

\* The rebuild in the background ends: the walk replaced the cache, or it
\* failed and left the cache; the result is on the handle.
RebuildEndsOn(s, ok) ==
    LET ch == IF s = Me THEN rebuildCh ELSE otherCh[s]
    IN  /\ ch \notin chClosed
        /\ IF ok
           THEN /\ skylinks' = [skylinks EXCEPT
                       ![s] = WalkFrom(fsFiles[s], <<SkynetFolder>>, {})]
                /\ rbErr' = [rbErr EXCEPT ![ch] = Nil]
           ELSE /\ skylinks' = skylinks
                /\ rbErr' = [rbErr EXCEPT ![ch] = ErrWalk]
        /\ chClosed' = chClosed \cup {ch}
        /\ UNCHANGED <<records, now, status, swPc, sweepLocals, rebuildCh,
                       chMade, exceptSweeper>>

\* The same, for the cache of this server, which its Sweeper rebuilds.
RebuildEnds(ok) == RebuildEndsOn(Me, ok)

\* dbSkylinks, err := SkylinksForServer(...), which may fail.
MutSweepRead(g) ==
    /\ swPc[g] = "read"
    /\ \E ok \in BOOLEAN :
          IF ok
          THEN /\ swDb' = [swDb EXCEPT ![g] = SkylinksForServer(records, Me)]
               /\ swErr' = swErr
          ELSE /\ swDb' = swDb
               /\ swErr' = [swErr EXCEPT ![g] = ErrFetchSkylinks]
    /\ swPc' = [swPc EXCEPT ![g] = "await"]
    /\ UNCHANGED <<records, now, skylinks, status, swUnknown, swMissing,
                   swRes, rebuildState, exceptSweeper>>
SweepRead(g) ==
    /\ swPc[g] = "read"
    /\ \E ok \in BOOLEAN :
          IF ok
          THEN /\ swDb' = [swDb EXCEPT ![g] = SkylinksForServer(records, Me)]
               /\ swErr' = swErr
               /\ swPc' = [swPc EXCEPT ![g] = "await"]
          ELSE /\ swDb' = swDb
               /\ swErr' = [swErr EXCEPT ![g] = ErrFetchSkylinks]
               /\ swPc' = [swPc EXCEPT ![g] = "finalize"]
    /\ UNCHANGED <<records, now, skylinks, status, swUnknown, swMissing,
                   swRes, rebuildState, exceptSweeper>>

\* <-res.ErrAvail, then the check of res.ExternErr.
SweepAwait(g) ==
    /\ swPc[g] = "await"
    /\ swRes[g] \in chClosed
    /\ IF rbErr[swRes[g]] # Nil
       THEN /\ swErr' = [swErr EXCEPT ![g] = ErrRebuildCache]
            /\ swPc' = [swPc EXCEPT ![g] = "finalize"]
       ELSE /\ swErr' = swErr
            /\ swPc' = [swPc EXCEPT ![g] = "diff"]
    /\ UNCHANGED <<records, now, skylinks, status, swDb, swUnknown,
                   swMissing, swRes, rebuildState, exceptSweeper>>

\* unknown, missing := DiffPinnedSkylinks(dbSkylinks).
SweepDiff(g) ==
    /\ swPc[g] = "diff"
    /\ swUnknown' = [swUnknown EXCEPT
                       ![g] = Diff(skylinks[Me], swDb[g]).unknown]
    /\ swMissing' = [swMissing EXCEPT
                       ![g] = Diff(skylinks[Me], swDb[g]).missing]
    /\ swPc' = [swPc EXCEPT ![g] = "remove"]
    /\ UNCHANGED <<records, now, skylinks, status, swErr, swDb, swRes,
                   rebuildState, exceptSweeper>>

\* err = RemoveServerFromSkylinks(ctx, unknown, server): the call is
\* refused, or the store fails, or the update is made.
SweepRemove(g) ==
    /\ swPc[g] = "remove"
    /\ \E ok \in BOOLEAN :
          IF ok /\ RemoveServerErr(swUnknown[g]) = Nil
          THEN /\ records' = RemoveServerFromSkylinks(records, swUnknown[g],
                                                      Me)
               /\ swErr' = swErr
               /\ swPc' = [swPc EXCEPT ![g] = "add"]
          ELSE /\ records' = records
               /\ swErr' = [swErr EXCEPT ![g] = ErrRemoveServer]
               /\ swPc' = [swPc EXCEPT ![g] = "finalize"]
    /\ UNCHANGED <<now, skylinks, status, swDb, swUnknown, swMissing, swRes,
                   rebuildState, exceptSweeper>>

\* err = AddServerForSkylinks(ctx, missing, server, false).
SweepAdd(g) ==
    /\ swPc[g] = "add"
    /\ \E ok \in BOOLEAN :
          IF ok /\ AddServerErr(records, swMissing[g]) = Nil
          THEN /\ records' = AddServerForSkylinks(records, swMissing[g], Me,
                                                  FALSE)
               /\ swErr' = swErr
          ELSE /\ records' = records
               /\ swErr' = [swErr EXCEPT ![g] = ErrAddServer]
    /\ swPc' = [swPc EXCEPT ![g] = "finalize"]
    /\ UNCHANGED <<now, skylinks, status, swDb, swUnknown, swMissing, swRes,
                   rebuildState, exceptSweeper>>

\* The deferred Finalize runs and the goroutine ends.
SweepFinalize(g) ==
    /\ swPc[g] = "finalize"
    /\ status' = Finalize(status, DeferredErr, now)
    /\ swPc' = [swPc EXCEPT ![g] = "idle"]
    /\ swErr' = [swErr EXCEPT ![g] = Nil]
    /\ swDb' = [swDb EXCEPT ![g] = {}]
    /\ swUnknown' = [swUnknown EXCEPT ![g] = {}]
    /\ swMissing' = [swMissing EXCEPT ![g] = {}]
    /\ swRes' = [swRes EXCEPT ![g] = 0]
    /\ UNCHANGED <<records, now, skylinks, rebuildState, exceptSweeper>>

\* Time passes during the sweeps.
SweeperTick ==
    /\ now < MaxSweepTime
    /\ Tick

NextSweeper ==
    \/ \E g \in Sweeps : Sweep(g)
    \/ \E g \in Sweeps : SweepCheck(g)
    \/ \E g \in Sweeps : SweepStart(g)
    \/ \E g \in Sweeps : SweepRebuild(g)
    \/ \E ok \in BOOLEAN : RebuildEnds(ok)
    \/ \E g \in Sweeps : SweepRead(g)
    \/ \E g \in Sweeps : SweepAwait(g)
    \/ \E g \in Sweeps : SweepDiff(g)
    \/ \E g \in Sweeps : SweepRemove(g)
    \/ \E g \in Sweeps : SweepAdd(g)
    \/ \E g \in Sweeps : SweepFinalize(g)
    \/ SweeperTick

SpecSweeper == InitSweeper /\ [][NextSweeper]_vars

(***************************************************************************)
(* Claims about the Sweeper.                                               *)
(***************************************************************************)
\* The goroutines that are in the body of a sweep: past Start and before
\* the deferred Finalize.
Sweeping ==
    {g \in Sweeps :
        swPc[g] \in {"rebuild", "read", "await", "diff", "remove", "add"}}

\* C4: however Sweep is called, at most one sweep body runs at a time and
\* the StartTime of the status is not changed while a sweep body runs.
C4_OneSweepAtATime ==
    [][/\ Cardinality(Sweeping') <= 1
       /\ \A g \in Sweeps :
            (g \in Sweeping /\ g \in Sweeping') =>
                status'.StartTime = status.StartTime]_vars

\* C7: when a sweep has made its last store call and no step of it failed,
\* the skylinks the store lists for this server are those skyd holds.
C7_SweepReconciles ==
    \A g \in Sweeps :
        (swPc[g] = "finalize" /\ swErr[g] = Nil) =>
            SkylinksForServer(records, Me)
                = WalkFrom(fsFiles[Me], <<SkynetFolder>>, {})

\* C9: when a sweep that stopped on a failure finalizes, the status it
\* publishes is not in progress and carries that failure as its error.
C9_FailurePublished ==
    [][\A g \in Sweeps :
          (swPc[g] = "finalize" /\ swPc'[g] = "idle" /\ swErr[g] # Nil) =>
              /\ status'.InProgress = FALSE
              /\ status'.Error = swErr[g]]_vars
(***************************************************************************)
(* The Scanner (SpecScanner, SpecScannerLive): threadedScanAndPin of       *)
(* src/unnamed/part_021, one goroutine per server that started it.         *)
(***************************************************************************)
\* The values a min_pinners setting of the store can have: none below the
\* range, the values of the range the model reaches, one above the range.
ConfMinPinners ==
    {minPinnersMinValue - 1} \cup (minPinnersMinValue..MaxMinPinners)
        \cup {maxPinnersMinValue + 1}

\* conf.MinPinners: the setting is refused when it is out of range.
MutMinPinnersValid(mp) == TRUE
MinPinnersValid(mp) == mp >= minPinnersMinValue /\ mp <= maxPinnersMinValue

\* The collection after AddServerForSkylink(skylink, server, markPinned):
\* one UpdateOne with upsert on the document of the skylink.
MutAddServerForSkylink(recs, sl, server, markPinned) == recs
MutAddServerForSkylinkPins(recs, sl, server, markPinned) ==
    [recs EXCEPT ![sl] = AddServerUpdate(recs[sl], server, TRUE)]
MutAddServerForSkylinkSkips(recs, sl, server, markPinned) == recs
AddServerForSkylink(recs, sl, server, markPinned) ==
    [recs EXCEPT ![sl] = AddServerUpdate(recs[sl], server, markPinned)]

\* isPinned: the cache of the client holds the skylink.
IsPinned(s, sl) == sl \in skylinks[s]

\* Where managedFindAndPinOneUnderpinnedSkylink goes once it holds the
\* lock: a dry run returns at once, through the deferred unlock.
AfterLock(dryRun) == IF dryRun THEN "unlock" ELSE "pin"

\* Where managedPinUnderpinnedSkylinks goes with what the step returned.
MutAfterStep(continueScanning, err) ==
    IF err = Nil THEN "health" ELSE "sleepPin"
AfterStep(continueScanning, err) ==
    IF ~continueScanning THEN "sleepScan"
    ELSE IF err = Nil THEN "health" ELSE "sleepPin"

\* The servers whose Scanner can be started: this one and one more.
ScannerServers == {Me, Other}

\* The documents the store can hold when the Scanners start.
\* They are the documents CreateSkylink and the calls after it leave, and
\* the one the unpin of a skylink the store did not know leaves.
ScanRecords ==
    {NoRecord, [UpsertedSkylink EXCEPT !.pinned = "false"]} \cup
    {[exists |-> TRUE, hasServers |-> TRUE, servers |-> ss, pinned |-> p,
      lockedBy |-> NoServer, lockExpires |-> ZeroTime] :
        ss \in SUBSET Servers, p \in {"true", "false"}}

\* One document at most, calls that fail with one Scanner only.
InitScanner ==
    /\ records \in [Skylinks -> ScanRecords]
    /\ Cardinality({sl \in Skylinks : records[sl].exists}) <= 1
    /\ now = 1
    /\ ret = Call("none", NoServer, NoSkylink, 0, Nil)
    /\ held = [s \in Servers |-> NoHold]
    /\ skylinks = [s \in Servers |-> {}]
    /\ rebuildCh = 0
    /\ chClosed = {0}
    /\ chMade = 0
    /\ fsFiles \in [Servers -> [Dirs -> SUBSET Skylinks]]
    /\ \A s \in Servers \ {Me} : \A d \in Dirs : fsFiles[s][d] = {}
    /\ \A d \in Dirs : \A sl \in fsFiles[Me][d] : HomeDir(sl) = d
    /\ NoCacheCalls
    /\ SweeperIdle
    /\ scPc \in [Servers -> {"off", "rebuild"}]
    /\ \A s \in Servers : scPc[s] = "rebuild" => s \in ScannerServers
    /\ scPc[Me] = "rebuild"
    /\ scSl = [s \in Servers |-> NoSkylink]
    /\ scErr = [s \in Servers |-> Nil]
    /\ scCont = [s \in Servers |-> FALSE]
    /\ scDryRun = [s \in Servers |-> FALSE]
    /\ scMinPinners = [s \in Servers |-> defaultMinPinners]
    /\ pinCalls = [s \in Servers |-> [sl \in Skylinks |-> 0]]
    /\ conf \in [dryRun : BOOLEAN, minPinners : ConfMinPinners]
    /\ faults \in BOOLEAN
    /\ faults => \A s \in Servers \ {Me} : scPc[s] = "off"
    /\ stopped = [s \in Servers |-> FALSE]

exceptScanner == <<ret, held, rebuildCh, chClosed, chMade,
                   cPc, cSls, cDirs, cCh, cRes, sweepVars, asideVars>>
scanStep == <<scSl, scErr, scCont>>
scanConf == <<scDryRun, scMinPinners, conf, faults>>

\* The results of managedFindAndPinOneUnderpinnedSkylink are locals of the
\* loop: they are gone once the caller has looked at them.
StepReturned(s) ==
    /\ scSl' = [scSl EXCEPT ![s] = NoSkylink]
    /\ scErr' = [scErr EXCEPT ![s] = Nil]
    /\ scCont' = [scCont EXCEPT ![s] = FALSE]

\* The Scanner panicked in the deferred UnlockSkylink: the step never
\* returns and the goroutine, like its process, takes no further step.
Crashed(s) == scPc[s] = "unlock" /\ scErr[s] = Panic

\* psc.rebuildCh of the cache of a server, and whether a rebuild of that
\* cache is in flight.
RebuildChOf(s) == IF s = Me THEN rebuildCh ELSE otherCh[s]
InProgressOn(s) == RebuildChOf(s) \notin chClosed

\* Someone still waits on a channel, or will receive on it.
Awaited(c) ==
    \/ \E g \in Sweeps : swPc[g] \in {"read", "await"} /\ swRes[g] = c
    \/ \E p \in Callers : cPc[p] = "blocked" /\ cCh[p] = c

\* The channel made for a rebuild that the Scanner starts.  Every rebuild
\* has a channel of its own; the one of the rebuild before, once no one
\* waits on it, is made anew under the same number, so that the number of
\* scans is not bounded by the number of channels.
NewChannel(s) ==
    IF RebuildChOf(s) # 0 /\ ~Awaited(RebuildChOf(s))
    THEN RebuildChOf(s) ELSE chMade + 1

\* res := s.staticSkydClient.RebuildCache(): the call returns the handle of
\* the rebuild in flight, or starts a rebuild in the background and
\* returns the handle of that.
ScanRebuild(s) ==
    LET c == IF InProgressOn(s) THEN RebuildChOf(s) ELSE NewChannel(s)
    IN  /\ scPc[s] = "rebuild"
        /\ c <= MaxChannels
        /\ scRes' = [scRes EXCEPT ![s] = c]
        /\ IF s = Me
           THEN rebuildCh' = c /\ otherCh' = otherCh
           ELSE rebuildCh' = rebuildCh /\ otherCh' = [otherCh EXCEPT ![s] = c]
        /\ chClosed' = chClosed \ {c}
        /\ chMade' = IF c > chMade THEN c ELSE chMade
        /\ scPc' = [scPc EXCEPT ![s] = "await"]
        /\ UNCHANGED <<records, now, skylinks, fsFiles, scanStep, scanConf,
                       pinCalls, stopped, ret, held, cPc, cSls, cDirs, cCh,
                       cRes, sweepVars, diffVars, arrVars, healthVars,
                       schedVars, statusVars, unpinCall, pinCall, pinReq>>

\* The select after the call: the task returns when the stop channel is
\* closed, and goes on when the rebuild has closed ErrAvail, whose error
\* is only logged.
ScanAwait(s) ==
    /\ scPc[s] = "await"
    /\ \/ /\ stopped[s]
          /\ scPc' = [scPc EXCEPT ![s] = "exited"]
       \/ /\ scRes[s] \in chClosed
          /\ scPc' = [scPc EXCEPT ![s] = "refreshDryRun"]
    /\ UNCHANGED <<records, now, skylinks, fsFiles, scanStep, scanConf,
                   pinCalls, stopped, exceptScanner>>

\* The rebuild a Scanner started or joined ends, whether the Scanner still
\* waits for it or has returned: a walk that did not fail replaces the
\* cache, and the channel is closed.
ScanRebuildEnds(s, ok) ==
    /\ scPc[s] # "off"
    /\ ~Crashed(s)
    /\ (ok \/ faults)
    /\ RebuildEndsOn(s, ok)

\* managedRefreshDryRun: a failed read leaves s.dryRun.
ScanRefreshDryRun(s) ==
    /\ scPc[s] = "refreshDryRun"
    /\ \E ok \in BOOLEAN :
          /\ ok \/ faults
          /\ scDryRun' = [scDryRun EXCEPT
                            ![s] = IF ok THEN conf.dryRun ELSE @]
    /\ scPc' = [scPc EXCEPT ![s] = "refreshMinPinners"]
    /\ UNCHANGED <<records, now, skylinks, fsFiles, scanStep, scMinPinners,
                   conf, faults, pinCalls, stopped, exceptScanner>>

\* managedRefreshMinPinners: a failed read or a refused value leaves
\* s.minPinners.
ScanRefreshMinPinners(s) ==
    /\ scPc[s] = "refreshMinPinners"
    /\ \E ok \in BOOLEAN :
          /\ ok \/ faults
          /\ scMinPinners' = [scMinPinners EXCEPT
                ![s] = IF ok /\ MinPinnersValid(conf.minPinners)
                       THEN conf.minPinners ELSE @]
    /\ scPc' = [scPc EXCEPT ![s] = "check"]
    /\ UNCHANGED <<records, now, skylinks, fsFiles, scanStep, scDryRun,
                   conf, faults, pinCalls, stopped, exceptScanner>>

\* The check for shutdown at the top of the loop of
\* managedPinUnderpinnedSkylinks.
MutScanCheckStop(s) ==
    /\ scPc[s] = "check"
    /\ scPc' = [scPc EXCEPT ![s] = "find"]
    /\ UNCHANGED <<records, now, skylinks, fsFiles, scanStep, scanConf,
                   pinCalls, stopped, exceptScanner>>
ScanCheckStop(s) ==
    /\ scPc[s] = "check"
    /\ scPc' = [scPc EXCEPT ![s] = IF stopped[s] THEN "sleepScan"
                                   ELSE "find"]
    /\ UNCHANGED <<records, now, skylinks, fsFiles, scanStep, scanConf,
                   pinCalls, stopped, exceptScanner>>

\* FindAndLockUnderpinned(server, s.minPinners) and the check for a dry
\* run: nothing found or a failed call ends the scan.
ScanFind(s) ==
    LET found == Underpinned(records, s, scMinPinners[s], now)
    IN  /\ scPc[s] = "find"
        /\ \/ /\ faults
              /\ records' = records
              /\ scSl' = [scSl EXCEPT ![s] = NoSkylink]
              /\ scErr' = [scErr EXCEPT ![s] = ErrStore]
              /\ scCont' = [scCont EXCEPT ![s] = FALSE]
              /\ scPc' = [scPc EXCEPT ![s] = "sleepScan"]
           \/ /\ SizeCanFail(records)
              /\ records' = records
              /\ scSl' = [scSl EXCEPT ![s] = NoSkylink]
              /\ scErr' = [scErr EXCEPT ![s] = ErrSizeOfMissing]
              /\ scCont' = [scCont EXCEPT ![s] = FALSE]
              /\ scPc' = [scPc EXCEPT ![s] = "sleepScan"]
           \/ /\ found = {}
              /\ ~SizeMustFail(records, now)
              /\ records' = records
              /\ scSl' = [scSl EXCEPT ![s] = NoSkylink]
              /\ scErr' = [scErr EXCEPT ![s] = ErrNoUnderpinnedSkylinks]
              /\ scCont' = [scCont EXCEPT ![s] = FALSE]
              /\ scPc' = [scPc EXCEPT ![s] = "sleepScan"]
           \/ \E sl \in found :
              /\ records' = [records EXCEPT
                               ![sl] = LockUpdate(records[sl], s, now)]
              /\ scSl' = [scSl EXCEPT ![s] = sl]
              /\ scErr' = [scErr EXCEPT
                             ![s] = IF scDryRun[s] THEN ErrDryRun ELSE Nil]
              /\ scCont' = [scCont EXCEPT ![s] = FALSE]
              /\ scPc' = [scPc EXCEPT ![s] = AfterLock(scDryRun[s])]
        /\ UNCHANGED <<now, skylinks, fsFiles, scanConf, pinCalls, stopped,
                       exceptScanner>>

\* What SkynetSkylinkPinLazyPost can return for a skylink, given the files
\* skyd holds.  skyd pins a skylink it does not hold, or the call fails.
\* For one it holds already its answer is an error, and whether that error
\* is one in which errors.Contains finds ErrSkylinkAlreadyPinned is up to
\* the skyd client library, which is not part of the repository.
PinPostOutcomes(fs, sl) ==
    IF sl \in fs[HomeDir(sl)]
    THEN {ErrSkylinkAlreadyPinned, ErrPin}
    ELSE {Nil, ErrPin}

\* The files skyd holds after the call returned err.
SkydPinned(fs, sl, err) ==
    IF err = Nil THEN [fs EXCEPT ![HomeDir(sl)] = @ \cup {sl}] ELSE fs

\* sf, err = Pin(sl), up to the call to skyd: isPinned reads the cache,
\* and Pin returns ErrSkylinkAlreadyPinned for a skylink it holds.
ScanPin(s) ==
    LET sl == scSl[s]
    IN  /\ scPc[s] = "pin"
        /\ pinCalls[s][sl] < MaxPinCalls
        /\ pinCalls' = [pinCalls EXCEPT ![s][sl] = @ + 1]
        /\ scPc' = [scPc EXCEPT ![s] = IF IsPinned(s, sl) THEN "markAlready"
                                       ELSE "pinPost"]
        /\ UNCHANGED <<records, now, skylinks, fsFiles, scanStep, scanConf,
                       stopped, exceptScanner>>

\* What the call to skyd can return to the Scanner: the answers of skyd,
\* and the failures of a call that can fail.
ScanPinOutcomes(s) ==
    LET sl == scSl[s]
    IN  {err \in PinPostOutcomes(fsFiles[s], sl) \cup {ErrUnrecoverable} :
            \/ err \in {Nil, ErrSkylinkAlreadyPinned}
            \/ faults
            \/ err = ErrPin /\ sl \in fsFiles[s][HomeDir(sl)]}

\* sp, err := SkynetSkylinkPinLazyPost(skylink), in Pin: skyd pins the
\* skylink, or holds it already, or the call fails.  Pin goes on to Add
\* when err is nil or holds ErrSkylinkAlreadyPinned; with another error
\* it returns, and the step returns, asking to go on unless the error is
\* beyond recovery.
ScanPinPost(s) ==
    LET sl == scSl[s]
    IN  /\ scPc[s] = "pinPost"
        /\ \E err \in ScanPinOutcomes(s) :
              /\ fsFiles' = [fsFiles EXCEPT
                               ![s] = SkydPinned(fsFiles[s], sl, err)]
              /\ scErr' = [scErr EXCEPT ![s] = err]
              /\ IF err \in {Nil, ErrSkylinkAlreadyPinned}
                 THEN /\ scPc' = [scPc EXCEPT ![s] = "pinAdd"]
                      /\ scCont' = scCont
                 ELSE /\ scPc' = [scPc EXCEPT ![s] = "unlock"]
                      /\ scCont' = [scCont EXCEPT
                                      ![s] = err # ErrUnrecoverable]
        /\ UNCHANGED <<records, now, skylinks, scSl, scanConf, pinCalls,
                       stopped, exceptScanner>>

\* c.staticSkylinksCache.Add(skylink), in Pin, and the return of Pin: the
\* step goes by what err holds.
ScanPinAdd(s) ==
    /\ scPc[s] = "pinAdd"
    /\ skylinks' = [skylinks EXCEPT ![s] = @ \cup {scSl[s]}]
    /\ scPc' = [scPc EXCEPT ![s] = IF scErr[s] = Nil THEN "mark"
                                   ELSE "markAlready"]
    /\ UNCHANGED <<records, now, fsFiles, scanStep, scanConf, pinCalls,
                   stopped, exceptScanner>>

\* The skylink is pinned here already: AddServerForSkylink(sl, server,
\* false), whose error is returned, and the scan goes on.
ScanMarkAlready(s) ==
    /\ scPc[s] = "markAlready"
    /\ \E ok \in BOOLEAN :
          /\ ok \/ faults
          /\ records' = IF ok
                        THEN AddServerForSkylink(records, scSl[s], s, FALSE)
                        ELSE records
          /\ scErr' = [scErr EXCEPT ![s] = IF ok THEN Nil ELSE ErrStore]
    /\ scCont' = [scCont EXCEPT ![s] = TRUE]
    /\ scPc' = [scPc EXCEPT ![s] = "unlock"]
    /\ UNCHANGED <<now, skylinks, fsFiles, scSl, scanConf, pinCalls, stopped,
                   exceptScanner>>

\* The pin succeeded: AddServerForSkylink(sl, server, false), whose error
\* is only logged, and the scan goes on.
ScanMark(s) ==
    /\ scPc[s] = "mark"
    /\ \E ok \in BOOLEAN :
          /\ ok \/ faults
          /\ records' = IF ok
                        THEN AddServerForSkylink(records, scSl[s], s, FALSE)
                        ELSE records
    /\ scErr' = [scErr EXCEPT ![s] = Nil]
    /\ scCont' = [scCont EXCEPT ![s] = TRUE]
    /\ scPc' = [scPc EXCEPT ![s] = "unlock"]
    /\ UNCHANGED <<now, skylinks, fsFiles, scSl, scanConf, pinCalls, stopped,
                   exceptScanner>>

\* The deferred function: err = UnlockSkylink(sl, server), assigned to the
\* result err; then the caller looks at continueScanning and at err.
\* When UpdateOne fails it returns no result next to its error, and
\* UnlockSkylink reads ur.ModifiedCount of the nil result: the call panics
\* in the deferred function, which recovers nothing, and the document
\* keeps its lock.
ScanUnlock(s) ==
    LET sl == scSl[s]
        unlockErr == IF LockedByFilter(records[sl], s) THEN Nil
                     ELSE ErrNoSkylinksLocked
    IN  /\ scPc[s] = "unlock"
        /\ ~Crashed(s)
        /\ \/ /\ records' = IF unlockErr = Nil
                             THEN [records EXCEPT
                                     ![sl] = UnlockUpdate(records[sl])]
                             ELSE records
              /\ scErr' = [scErr EXCEPT ![s] = unlockErr]
              /\ scPc' = [scPc EXCEPT ![s] = AfterStep(scCont[s], unlockErr)]
           \/ /\ faults
              /\ records' = records
              /\ scErr' = [scErr EXCEPT ![s] = Panic]
              /\ scPc' = scPc
        /\ UNCHANGED <<now, skylinks, fsFiles, scSl, scCont, scanConf,
                       pinCalls, stopped, exceptScanner>>

\* managedWaitUntilHealthy returns: the file is healthy, FileHealth failed
\* or the Scanner is stopped.
ScanWaitUntilHealthy(s) ==
    /\ scPc[s] = "health"
    /\ scPc' = [scPc EXCEPT ![s] = "check"]
    /\ StepReturned(s)
    /\ UNCHANGED <<records, now, skylinks, fsFiles, scanConf,
                   pinCalls, stopped, exceptScanner>>

\* The select on the stop channel and on time.After(SleepBetweenPins).
ScanSleepBetweenPins(s) ==
    /\ scPc[s] = "sleepPin"
    /\ \/ scPc' = [scPc EXCEPT ![s] = "check"]
       \/ /\ stopped[s]
          /\ scPc' = [scPc EXCEPT ![s] = "sleepScan"]
    /\ StepReturned(s)
    /\ UNCHANGED <<records, now, skylinks, fsFiles, scanConf,
                   pinCalls, stopped, exceptScanner>>

\* The select on time.After(SleepBetweenScans()) and on the stop channel.
ScanSleepBetweenScans(s) ==
    /\ scPc[s] = "sleepScan"
    /\ \/ scPc' = [scPc EXCEPT ![s] = "rebuild"]
       \/ /\ stopped[s]
          /\ scPc' = [scPc EXCEPT ![s] = "exited"]
    /\ StepReturned(s)
    /\ UNCHANGED <<records, now, skylinks, fsFiles, scanConf,
                   pinCalls, stopped, exceptScanner>>

\* Close(): the stop channel of the thread group is closed.
ScanClose(s) ==
    /\ scPc[s] # "off"
    /\ ~Crashed(s)
    /\ ~stopped[s]
    /\ stopped' = [stopped EXCEPT ![s] = TRUE]
    /\ UNCHANGED <<records, now, skylinks, fsFiles, scPc, scanStep, scanConf,
                   pinCalls, exceptScanner>>

ScannerStep(s) ==
    \/ ScanRebuild(s)
    \/ ScanAwait(s)
    \/ ScanRefreshDryRun(s)
    \/ ScanRefreshMinPinners(s)
    \/ ScanCheckStop(s)
    \/ ScanFind(s)
    \/ ScanPin(s)
    \/ ScanPinPost(s)
    \/ ScanPinAdd(s)
    \/ ScanMarkAlready(s)
    \/ ScanMark(s)
    \/ ScanUnlock(s)
    \/ ScanWaitUntilHealthy(s)
    \/ ScanSleepBetweenPins(s)
    \/ ScanSleepBetweenScans(s)

\* Time passes; the Scanners see it through lock_expires only, so the
\* clock is followed while a lock is held.
ScannerTick ==
    /\ \E sl \in DOMAIN records : records[sl].lockedBy # NoServer
    /\ now < MaxTime
    /\ now' = now + 1
    /\ UNCHANGED <<records, skylinks, fsFiles, scPc, scanStep, scanConf,
                   pinCalls, stopped, exceptScanner>>

NextScanner ==
    \/ \E s \in Servers : ScannerStep(s)
    \/ \E s \in Servers : \E ok \in BOOLEAN : ScanRebuildEnds(s, ok)
    \/ \E s \in Servers : ScanClose(s)
    \/ ScannerTick

SpecScanner == InitScanner /\ [][NextScanner]_vars

\* The Scanners of a service that is not shut down: every step a Scanner
\* can take is taken in the end, its timers fire and its calls return.
NextScannerLive ==
    \/ \E s \in Servers : ScannerStep(s)
    \/ \E s \in Servers : \E ok \in BOOLEAN : ScanRebuildEnds(s, ok)
    \/ ScannerTick

SpecScannerLive ==
    /\ InitScanner
    /\ [][NextScannerLive]_vars
    /\ \A s \in Servers : WF_vars(ScannerStep(s))
    /\ \A s \in Servers : WF_vars(\E ok \in BOOLEAN : ScanRebuildEnds(s, ok))
\* A Scanner is between two scans, or gone.
ScanEnded(s) == scPc[s] \in {"sleepScan", "exited"}

\* C6: the record of sl is underpinned for the min_pinners the store
\* holds, not unpinned, not locked and does not list this server, dry_run
\* is off, no call fails and this server's Scanner, alone, starts a scan.
C6Pre(sl) ==
    /\ scPc[Me] = "rebuild"
    /\ \A s \in Servers \ {Me} : scPc[s] = "off"
    /\ ~faults
    /\ ~conf.dryRun
    /\ MinPinnersValid(conf.minPinners)
    /\ pinCalls[Me][sl] = 0
    /\ records[sl].exists
    /\ records[sl].pinned # "false"
    /\ Me \notin records[sl].servers
    /\ Cardinality(records[sl].servers) < conf.minPinners
    /\ UnlockedFilter(records[sl], now)

\* C6: Pin was called once for sl, skyd holds it, the record lists this
\* server and is not locked.
C6Done(sl) ==
    /\ pinCalls[Me][sl] = 1
    /\ sl \in fsFiles[Me][HomeDir(sl)]
    /\ Me \in records[sl].servers
    /\ records[sl].lockedBy = NoServer

\* C6: given one record that is underpinned, not unpinned, not locked and
\* that does not list the local server, with dry_run off and every call to
\* the daemon and to the store succeeding, the Scanner eventually locks the
\* record, and eventually and for good the record lists the local server
\* and is unlocked after exactly one Pin call for it.
C6_EventuallyPinned ==
    \A sl \in Skylinks :
        /\ C6Pre(sl) ~> (records[sl].lockedBy = Me)
        /\ C6Pre(sl) ~> [](C6Done(sl))

\* C6: the Scanner, alone and with no failing call, has pinned a skylink,
\* marked it and unlocked it, and waits for it to become healthy.
C6_Witness ==
    \E sl \in Skylinks :
        /\ C6Done(sl)
        /\ scPc[Me] = "health"
        /\ scSl[Me] = sl
        /\ ~faults
        /\ ~scDryRun[Me]
        /\ \A s \in Servers \ {Me} : scPc[s] = "off"

\* C8: while the dryRun of a Scanner is true no step calls Pin for that
\* Scanner or adds its server to a record, and when its scan ends, at the
\* sleep between scans, with the return of the task or with its panic, no
\* record is locked by its server.
C8_DryRunDoesNotPin ==
    [][\A s \in Servers : scDryRun[s] =>
          /\ pinCalls'[s] = pinCalls[s]
          /\ \A sl \in DOMAIN records :
                s \in records'[sl].servers => s \in records[sl].servers
          /\ (ScanEnded(s) \/ Crashed(s))' =>
                \A sl \in DOMAIN records : records'[sl].lockedBy # s]_vars

(***************************************************************************)
(* Claims about callers that find a rebuild in flight (SpecCache).         *)
(***************************************************************************)
\* The callers that run a rebuild: they walk, or they are about to signal
\* its end.
Rebuilding == {p \in Callers : cPc[p] \in {"walk", "end_check", "end_close"}}

\* C11: a caller that found a rebuild in flight waits for that rebuild and
\* gets its outcome: while it waits on a channel that is not closed, a
\* rebuild is in flight that will close the channel and release it.
C11_WaiterSharesOutcome ==
    \A p \in Callers :
        (cPc[p] = "blocked" /\ cCh[p] \notin chClosed) => Rebuilding # {}

(***************************************************************************)
(* More claims about the store (Spec).                                     *)
(***************************************************************************)
\* The conditions of the filter of FindAndLockUnderpinned other than the
\* one on the lock, on a document that has a servers array, as every
\* document has that was ever locked.
RestOfFilter(r, server, minPinners) ==
    /\ r.exists
    /\ r.pinned # "false"
    /\ r.hasServers
    /\ Cardinality(r.servers) < minPinners
    /\ server \notin r.servers

\* A call of FindAndLockUnderpinned(server, minPinners) that returns sl,
\* locked for the server.
FindReturns(server, minPinners, sl) ==
    /\ FindAndLockUnderpinned(server, minPinners)
    /\ ret'.err = Nil
    /\ ret'.skylink = sl
    /\ records'[sl].lockedBy = server
    /\ records'[sl].lockExpires = now + LockDuration

\* C12: when a server has locked a skylink and has not unlocked it, once
\* lock_expires has passed a FindAndLockUnderpinned call of another server
\* can select and lock the skylink, as long as the rest of the filter
\* holds for that server.
C12_ExpiredLockCanBeTaken ==
    \A sl \in Skylinks, a \in Servers, b \in Servers,
       mp \in 1..MaxMinPinners :
        (/\ a # b
         /\ records[sl].lockedBy = a
         /\ held[a][sl] # ZeroTime
         /\ records[sl].lockExpires < now
         /\ RestOfFilter(records[sl], b, mp))
        => ENABLED FindReturns(b, mp, sl)

\* Another server took over a skylink whose lock, never released by the
\* server that was given it, had expired.
C12_Witness ==
    \E a \in Servers :
        /\ ret.op = "FindAndLockUnderpinned"
        /\ ret.err = Nil
        /\ ret.server # a
        /\ records[ret.skylink].lockedBy = ret.server
        /\ held[a][ret.skylink] # ZeroTime
        /\ held[a][ret.skylink] < now
        /\ held[ret.server][ret.skylink] = now + LockDuration

\* C13: once UnlockSkylink(sl, a) has returned success, a call of
\* FindAndLockUnderpinned by another server b can return sl as long as the
\* document is not unpinned, is underpinned and does not list b: a lock
\* that was released blocks no server.
C13_ReleasedLockDoesNotBlock ==
    \A sl \in Skylinks, b \in Servers, mp \in 1..MaxMinPinners :
        (/\ records[sl].lockedBy = NoServer
         /\ RestOfFilter(records[sl], b, mp))
        => ENABLED FindReturns(b, mp, sl)

\* A server has just released the lock it held, and another
\* server, for which the rest of the filter holds, can lock the skylink.
C13_Witness ==
    \E b \in Servers, mp \in 1..MaxMinPinners :
        /\ ret.op = "UnlockSkylink"
        /\ ret.err = Nil
        /\ ret.server # b
        /\ records[ret.skylink].lockExpires = ZeroTime
        /\ RestOfFilter(records[ret.skylink], b, mp)
        /\ ENABLED FindReturns(b, mp, ret.skylink)

\* The lists of skylinks for which AddServerForSkylinks touches documents
\* filed under a skylink: one skylink, or some document matches.
AddServerLists(recs) ==
    {sls \in SUBSET Skylinks :
        Cardinality(sls) = 1 \/ Matched(recs, sls) # {}}

\* The documents AddServerForSkylinks(sls, ...) writes.
AddServerWrites(recs, sls) ==
    IF Matched(recs, sls) # {} THEN Matched(recs, sls) ELSE sls

\* C14: AddServerForSkylinks never sets pinned to false: with markPinned
\* false the pinned flag of every document is what it was (an unpinned
\* document stays unpinned), with markPinned true the documents it writes
\* have pinned true.
C14_AddServerKeepsPinned ==
    \A sls \in AddServerLists(records), s \in Servers, mp \in BOOLEAN :
        LET after == AddServerForSkylinks(records, sls, s, mp)
        IN  \A sl \in Skylinks :
              /\ after[sl].pinned = "false" => records[sl].pinned = "false"
              /\ after[sl].pinned =
                    IF mp /\ sl \in AddServerWrites(records, sls)
                    THEN "true" ELSE records[sl].pinned
              /\ sl \in AddServerWrites(records, sls)
                    => s \in after[sl].servers

\* AddServerForSkylinks was called for a server on a document that is
\* unpinned: the document lists the server and is still unpinned.
C14_Witness ==
    \E sl \in Skylinks :
        /\ ret.op = "AddServerForSkylinks"
        /\ ret.err = Nil
        /\ records[sl].pinned = "false"
        /\ records[sl].servers = {ret.server}

(***************************************************************************)
(* The Sweeper and the Scanner of one server at work while users unpin     *)
(* skylinks (SpecWorkers).                                                 *)
(***************************************************************************)
InitWorkers ==
    /\ records \in [WorkerSkylinks \cup {NoSkylink} ->
                      {NoRecord, NewSkylink(Me), NewSkylink(Other)}]
    /\ records[NoSkylink] = NoRecord
    /\ now = 1
    /\ ret = Call("none", NoServer, NoSkylink, 0, Nil)
    /\ held = [s \in Servers |-> [sl \in WorkerSkylinks |-> ZeroTime]]
    /\ skylinks = [s \in Servers |-> {}]
    /\ rebuildCh = 0
    /\ chClosed = {0}
    /\ chMade = 0
    /\ fsFiles \in [Servers -> [Dirs -> SUBSET WorkerSkylinks]]
    /\ \A s \in Servers \ {Me} : \A d \in Dirs : fsFiles[s][d] = {}
    /\ \A d \in Dirs : \A sl \in fsFiles[Me][d] : HomeDir(sl) = d
    /\ NoCacheCalls
    /\ SweeperIdle
    /\ scPc = [s \in Servers |-> IF s = Me THEN "rebuild" ELSE "off"]
    /\ scSl = [s \in Servers |-> NoSkylink]
    /\ scErr = [s \in Servers |-> Nil]
    /\ scCont = [s \in Servers |-> FALSE]
    /\ scDryRun = [s \in Servers |-> FALSE]
    /\ scMinPinners = [s \in Servers |-> defaultMinPinners]
    /\ pinCalls = [s \in Servers |-> [sl \in WorkerSkylinks |-> 0]]
    /\ conf \in [dryRun : {FALSE}, minPinners : 1..MaxMinPinners]
    /\ faults = FALSE
    /\ stopped = [s \in Servers |-> FALSE]

\* A user unpins a skylink, known to the store or not: the unpin handler
\* calls MarkUnpinned, which upserts.
UserUnpins(sl) == MarkUnpinned(sl)

\* One Sweep call at a time, and the Scanner of this server alone: no other
\* server takes a lock over, UnlockSkylink succeeds and the loop never
\* pauses after a failed step.
NextWorkers ==
    \/ Sweep(1)
    \/ SweepCheck(1)
    \/ SweepStart(1)
    \/ SweepRebuild(1)
    \/ \E ok \in BOOLEAN : RebuildEnds(ok)
    \/ SweepRead(1)
    \/ SweepAwait(1)
    \/ SweepDiff(1)
    \/ SweepRemove(1)
    \/ SweepAdd(1)
    \/ SweepFinalize(1)
    \/ ScanRebuild(Me)
    \/ ScanAwait(Me)
    \/ ScanRefreshDryRun(Me)
    \/ ScanRefreshMinPinners(Me)
    \/ ScanCheckStop(Me)
    \/ ScanFind(Me)
    \/ ScanPin(Me)
    \/ ScanPinPost(Me)
    \/ ScanPinAdd(Me)
    \/ ScanMarkAlready(Me)
    \/ ScanMark(Me)
    \/ ScanUnlock(Me)
    \/ ScanWaitUntilHealthy(Me)
    \/ ScanSleepBetweenScans(Me)
    \/ \E sl \in WorkerSkylinks : UserUnpins(sl)

SpecWorkers == InitWorkers /\ [][NextWorkers]_vars

\* C15: neither the Sweeper nor the Scanner changes the pinned flag of a
\* record: a step that changes the pinned field of any record is a user's
\* unpin, and a record that is unpinned stays unpinned through every step
\* of a sweep or of a scan.
C15_WorkersKeepPinned ==
    [][/\ \A sl \in WorkerSkylinks :
            records[sl].pinned = "false" => records'[sl].pinned = "false"
       /\ (\E sl \in DOMAIN records :
               records'[sl].pinned # records[sl].pinned)
            => \E sl \in WorkerSkylinks : UserUnpins(sl)]_vars

\* An unpinned record that a scan of Me has pinned and marked and that a
\* sweep of Me has added Me to is still unpinned.
C15_Witness ==
    \E sl \in WorkerSkylinks :
        /\ records[sl].pinned = "false"
        /\ Me \in records[sl].servers
        /\ scPc[Me] = "unlock" /\ scSl[Me] = sl /\ pinCalls[Me][sl] > 0
        /\ swPc[1] = "finalize" /\ swErr[1] = Nil /\ sl \in swMissing[1]

(***************************************************************************)
(* Claims about what a rebuild leaves in the cache.                        *)
(***************************************************************************)
\* The directories of skyd at or under a directory.
RECURSIVE DirsUnder(_)
DirsUnder(dir) == {dir} \cup UNION {DirsUnder(c) : c \in SubDirs[dir]}

\* The skylinks of the files skyd holds at or under the Skynet folder.
SkylinksOnSkyd(fs) == UNION {fs[dir] : dir \in DirsUnder(SkynetFolder)}

\* C16: a rebuild whose walk did not fail leaves in the cache exactly the
\* skylinks of the files reachable from skyd's root directory, whatever
\* the cache held before: managedReplaceCache installs that set, and what
\* is left of the rebuild keeps it and returns no error.
C16_RebuildInstallsWalkedSet ==
    [][\A p \in Callers :
        /\ (cPc[p] = "walk" /\ cPc'[p] = "end_check")
           => skylinks'[Me] = SkylinksOnSkyd(fsFiles[Me])
        /\ (cPc[p] \in {"end_check", "end_close"} /\ cPc'[p] # cPc[p])
           => /\ skylinks' = skylinks
              /\ cPc'[p] \in {"done", "critical"} => cRes'[p] = Nil]_vars

\* A rebuild has replaced the cache with skylinks it found in a
\* subdirectory too, and a skylink that is not on skyd is not in it.
C16_Witness ==
    \E p \in Callers :
        /\ cPc[p] = "end_check"
        /\ skylinks[Me] = cSls[p]
        /\ \E dir \in Dirs \ {SkynetFolder} :
              fsFiles[Me][dir] \ fsFiles[Me][SkynetFolder] # {}
        /\ skylinks[Me] # CacheSkylinks

(***************************************************************************)
(* The cache of pinned skylinks by itself: Add, Remove and Diff calls on a *)
(* cache that starts empty (SpecPinnedSet).                                *)
(***************************************************************************)
\* The elements of a list.
Elems(q) == {q[i] : i \in 1..Len(q)}

\* The lists Diff is given: dbSkylinks, of any length up to MaxDiffLen, in
\* any order and with repetitions.
DiffInputs == UNION {[1..n -> CacheSkylinks] : n \in 0..MaxDiffLen}

\* Whether Diff appends an element of sls to unknown.
MutNotCached(cache, sl) == TRUE
NotCached(cache, sl) == sl \notin cache

\* Diff(sls) on the cache: unknown takes, in the order of sls, every element
\* the cache does not hold; missing is what is left of a copy of the cache
\* once every element of sls is deleted from it, listed in the order of a
\* map iteration, which is not fixed: it is kept as the set of its elements.
UnknownOf(cache, sls) ==
    SelectSeq(sls, LAMBDA sl : NotCached(cache, sl))

MissingOf(cache, sls) == cache \ Elems(sls)

InitPinnedSet ==
    /\ StoreInit
    /\ CacheIdle
    /\ SweeperIdle
    /\ ScannerIdle

\* unknown, missing := Diff(sls), under the mutex.
CacheDiff(sls) ==
    /\ dIn' = sls
    /\ dUnknown' = UnknownOf(skylinks[Me], sls)
    /\ dMissing' = MissingOf(skylinks[Me], sls)
    /\ UNCHANGED <<unpinRes, storeVars, cacheVars, sweepVars, scanVars, arrVars,
                   healthVars, schedVars,
                   statusVars, callVars>>

NextPinnedSet ==
    \/ \E sl \in CacheSkylinks : CacheAdd(sl)
    \/ \E sl \in CacheSkylinks : CacheRemove(sl)
    \/ \E sls \in DiffInputs : CacheDiff(sls)

SpecPinnedSet == InitPinnedSet /\ [][NextPinnedSet]_vars

\* C17: Diff(input) returns as unknown exactly the elements of input that
\* the cache does not hold and as missing exactly the elements of the cache
\* that are not in input, which is what the Sweeper takes from it, and the
\* call leaves the cache as it was.
C17_DiffIsExact ==
    [][\A sls \in DiffInputs : CacheDiff(sls) =>
        /\ \A sl \in CacheSkylinks :
              /\ sl \in Elems(dUnknown') <=>
                    (sl \in Elems(sls) /\ sl \notin skylinks[Me])
              /\ sl \in dMissing' <=>
                    (sl \in skylinks[Me] /\ sl \notin Elems(sls))
        /\ Elems(dUnknown') = Diff(skylinks[Me], Elems(sls)).unknown
        /\ dMissing' = Diff(skylinks[Me], Elems(sls)).missing
        /\ skylinks' = skylinks]_vars

\* A Diff call on a list that names a skylink twice returned a skylink the
\* cache does not hold and one that only the cache holds.
C17_Witness ==
    /\ dUnknown # <<>>
    /\ dMissing # {}
    /\ Len(dIn) > Cardinality(Elems(dIn))
    /\ skylinks[Me] = dMissing

\* C18: on a cache that holds nothing else, Add(x) leaves a cache for which
\* Diff of the list of x alone returns two empty lists and Diff of the empty
\* list returns nothing unknown and x as missing, and Remove(x) leaves a
\* cache for which Diff of the list of x alone returns x as unknown and
\* nothing missing; the Diff calls made on these caches return just that.
C18_AddRemoveDiff ==
    [][\A x \in CacheSkylinks :
        /\ (CacheAdd(x) /\ skylinks[Me] = {})
           => /\ UnknownOf(skylinks'[Me], <<x>>) = <<>>
              /\ MissingOf(skylinks'[Me], <<x>>) = {}
              /\ UnknownOf(skylinks'[Me], <<>>) = <<>>
              /\ MissingOf(skylinks'[Me], <<>>) = {x}
        /\ (CacheRemove(x) /\ skylinks[Me] = {x})
           => /\ UnknownOf(skylinks'[Me], <<x>>) = <<x>>
              /\ MissingOf(skylinks'[Me], <<x>>) = {}
        /\ (CacheDiff(<<x>>) /\ skylinks[Me] = {x})
           => (dUnknown' = <<>> /\ dMissing' = {})
        /\ (CacheDiff(<<x>>) /\ skylinks[Me] = {})
           => (dUnknown' = <<x>> /\ dMissing' = {})
        /\ (CacheDiff(<<>>) /\ skylinks[Me] = {x})
           => (dUnknown' = <<>> /\ dMissing' = {x})]_vars

\* Diff of the empty list on a cache that holds one skylink returned that
\* skylink as missing.
C18_Witness ==
    \E x \in CacheSkylinks :
        /\ skylinks[Me] = {x}
        /\ dIn = <<>>
        /\ dUnknown = <<>>
        /\ dMissing = {x}

(***************************************************************************)
(* Claims about the lock fields of the documents.                          *)
(***************************************************************************)
\* The selection predicate on one document, for a server at this instant.
Selectable(r, server, minPinners) ==
    /\ RestOfFilter(r, server, minPinners)
    /\ (r.lockExpires = Absent \/ r.lockExpires < now)

\* C19: a FindAndLockUnderpinned call that reaches the store when no
\* document satisfies the selection predicate fails with
\* ErrNoUnderpinnedSkylinks and leaves locked_by and lock_expires of every
\* document as they were.
C19_NoneAvailable ==
    [][\A s \in Servers, mp \in 1..MaxMinPinners :
        (/\ FindAndLockUnderpinned(s, mp)
         /\ ret'.err # ErrStore
         /\ \A sl \in DOMAIN records : ~Selectable(records[sl], s, mp))
        => /\ ret'.err = ErrNoUnderpinnedSkylinks
           /\ \A sl \in DOMAIN records :
                 /\ records'[sl].lockedBy = records[sl].lockedBy
                 /\ records'[sl].lockExpires = records[sl].lockExpires]_vars

\* The lock fields of a document are both set or both clear.
LockSet(r) == r.lockedBy # NoServer /\ r.lockExpires \notin {Absent, ZeroTime}
LockClear(r) == r.lockedBy = NoServer /\ r.lockExpires \in {Absent, ZeroTime}

\* C20: in every reachable state of the store a document with a non-empty
\* locked_by has a non-zero lock_expires, and a call that changes one of the
\* two fields of a document leaves both set or both cleared: the two are
\* written by the same update.
C20_LockFieldsTogether ==
    /\ [](\A sl \in DOMAIN records :
            records[sl].lockedBy # NoServer => LockSet(records[sl]))
    /\ [][\A sl \in DOMAIN records :
            (\/ records'[sl].lockedBy # records[sl].lockedBy
             \/ records'[sl].lockExpires # records[sl].lockExpires)
            => \/ /\ ret'.op = "FindAndLockUnderpinned"
                  /\ records'[sl].lockedBy = ret'.server
                  /\ records'[sl].lockExpires = now + LockDuration
                  /\ LockSet(records'[sl])
               \/ /\ ret'.op = "UnlockSkylink"
                  /\ records'[sl].lockedBy = NoServer
                  /\ records'[sl].lockExpires = ZeroTime
               \/ /\ ret'.op = "CreateSkylink"
                  /\ ~records[sl].exists
                  /\ LockClear(records'[sl])]_vars

\* A server was handed the lock of a document and has unlocked it: both
\* fields are clear again, while the document is still underpinned.
C20_Witness ==
    \E sl \in Skylinks :
        /\ ret.op = "UnlockSkylink"
        /\ ret.err = Nil
        /\ ret.skylink = sl
        /\ LockClear(records[sl])
        /\ records[sl].lockExpires = ZeroTime
        /\ records[sl].servers = {}

(***************************************************************************)
(* Claims about what the Scanner does to the records.                      *)
(***************************************************************************)
\* The record of a skylink lists min_pinners servers or more, for the
\* min_pinners of the Scanner of a server.
MeetsMinPinners(s, sl) ==
    Cardinality(records[sl].servers) >= scMinPinners[s]

\* C21: no step of a Scanner calls Pin for a record, or adds its server to
\* a record, whose servers already number the min_pinners of that Scanner
\* or more.
C21_NoPinAtMinPinners ==
    [][\A s \in Servers, sl \in Skylinks :
          (\/ pinCalls'[s][sl] # pinCalls[s][sl]
           \/ (s \in records'[sl].servers /\ s \notin records[sl].servers))
          => ~MeetsMinPinners(s, sl)]_vars

(***************************************************************************)
(* The servers array of the documents as the store keeps it, a list, under *)
(* CreateSkylink, AddServerForSkylinks and RemoveServerFromSkylinks        *)
(* (SpecServers).                                                          *)
(***************************************************************************)
\* "$addToSet": the value is appended unless the array holds it.
MutAddToSet(arr, server) == Append(arr, server)
AddToSet(arr, server) ==
    IF \E i \in 1..Len(arr) : arr[i] = server THEN arr
    ELSE Append(arr, server)

\* "$pull": every occurrence of the value is removed.
Pull(arr, server) == SelectSeq(arr, LAMBDA x : x # server)

\* CreateSkylink(skylink, server): Servers is []string{server}; the unique
\* index refuses a second document of the skylink.
ArrCreateSkylink(sl, server) ==
    /\ srvArr' = IF srvArr[sl].exists THEN srvArr
                 ELSE [srvArr EXCEPT
                         ![sl] = [exists |-> TRUE, servers |-> <<server>>]]
    /\ ret' = Call("CreateSkylink", server, sl, 0,
                   IF srvArr[sl].exists THEN ErrSkylinkExists ELSE Nil)
    /\ UNCHANGED <<records, now, held, cacheVars, sweepVars, scanVars,
                   diffVars, healthVars, schedVars,
                   statusVars, callVars>>

\* AddServerForSkylinks(skylinks, server, markPinned): $addToSet on every
\* document the list matches, or one upserted document.
ArrAddServers(sls, server) ==
    /\ srvArr' =
         IF AddServerErr(srvArr, sls) # Nil THEN srvArr
         ELSE IF Matched(srvArr, sls) # {}
              THEN [sl \in DOMAIN srvArr |->
                      IF sl \in Matched(srvArr, sls)
                      THEN [srvArr[sl] EXCEPT
                              !.servers = AddToSet(@, server)]
                      ELSE srvArr[sl]]
              ELSE [srvArr EXCEPT
                      ![UpsertKey(sls)] =
                          [exists |-> TRUE,
                           servers |-> AddToSet(<<>>, server)]]
    /\ ret' = Call("AddServerForSkylinks", server, UpsertKey(sls), 0,
                   AddServerErr(srvArr, sls))
    /\ UNCHANGED <<records, now, held, cacheVars, sweepVars, scanVars,
                   diffVars, healthVars, schedVars,
                   statusVars, callVars>>

\* RemoveServerFromSkylinks(skylinks, server): $pull on every document the
\* list matches and that lists the server.
ArrRemoveServers(sls, server) ==
    /\ srvArr' =
         IF RemoveServerErr(sls) # Nil THEN srvArr
         ELSE [sl \in DOMAIN srvArr |->
                 IF /\ sl \in Matched(srvArr, sls)
                    /\ \E i \in 1..Len(srvArr[sl].servers) :
                          srvArr[sl].servers[i] = server
                 THEN [srvArr[sl] EXCEPT !.servers = Pull(@, server)]
                 ELSE srvArr[sl]]
    /\ ret' = Call("RemoveServerFromSkylinks", server, UpsertKey(sls), 0,
                   RemoveServerErr(sls))
    /\ UNCHANGED <<records, now, held, cacheVars, sweepVars, scanVars,
                   diffVars, healthVars, schedVars,
                   statusVars, callVars>>

InitServers ==
    /\ StoreInit
    /\ CacheIdle
    /\ SweeperIdle
    /\ ScannerIdle

NextServers ==
    \/ \E sl \in SweepSkylinks, s \in Servers : ArrCreateSkylink(sl, s)
    \/ \E sls \in SUBSET SweepSkylinks, s \in Servers : ArrAddServers(sls, s)
    \/ \E sls \in SUBSET SweepSkylinks, s \in Servers :
          ArrRemoveServers(sls, s)

SpecServers == InitServers /\ [][NextServers]_vars

\* No value is twice in a list.
NoDuplicates(arr) ==
    \A i, j \in 1..Len(arr) : i # j => arr[i] # arr[j]

\* C22: whatever CreateSkylink, AddServerForSkylinks and
\* RemoveServerFromSkylinks calls are made, no servers array names a server
\* twice, and a call that adds a server to an array that names it leaves
\* the array as it is; the servers the array names after an add are those
\* it named and the server, after a remove those it named but the server.
C22_ServersIsASet ==
    /\ [](\A sl \in DOMAIN srvArr : NoDuplicates(srvArr[sl].servers))
    /\ [][\A sl \in DOMAIN srvArr :
            LET before == srvArr[sl].servers
                after == srvArr'[sl].servers
            IN  /\ (ret'.op = "AddServerForSkylinks" /\ after # before)
                   => /\ ret'.server \notin Elems(before)
                      /\ Elems(after) = Elems(before) \cup {ret'.server}
                /\ (ret'.op = "RemoveServerFromSkylinks" /\ after # before)
                   => Elems(after) = Elems(before) \ {ret'.server}]_vars

\* A call added a server to the array of a skylink that named it already,
\* before another server: the array holds it once.
C22_Witness ==
    \E sl \in SweepSkylinks :
        /\ ret.op = "AddServerForSkylinks"
        /\ ret.err = Nil
        /\ ret.skylink = sl
        /\ Len(srvArr[sl].servers) = 2
        /\ srvArr[sl].servers[1] = ret.server

(***************************************************************************)
(* managedWaitUntilHealthy of one Scanner, step by step (SpecHealth).      *)
(***************************************************************************)
InitHealth ==
    /\ StoreInit
    /\ CacheIdle
    /\ SweeperIdle
    /\ scPc = [s \in Servers |-> IF s = Me THEN "health" ELSE "off"]
    /\ scSl = [s \in Servers |-> NoSkylink]
    /\ scErr = [s \in Servers |-> Nil]
    /\ scCont = [s \in Servers |-> FALSE]
    /\ scDryRun = [s \in Servers |-> FALSE]
    /\ scMinPinners = [s \in Servers |-> defaultMinPinners]
    /\ pinCalls = [s \in Servers |-> [sl \in Skylinks |-> 0]]
    /\ conf = NoConf
    /\ faults \in BOOLEAN
    /\ stopped = [s \in Servers |-> FALSE]

exceptHealth == <<storeVars, cacheVars, sweepVars, scPc, scanStep, scanConf,
                  pinCalls, diffVars, arrVars, schedVars, statusVars, callVars>>

\* The call: deadlineTimer and ticker are made; the file that was pinned
\* needs repair or not.
WaitUntilHealthy ==
    /\ hPc \in {"off", "returned"}
    /\ hPc' = "health"
    /\ hTimer' = "armed"
    /\ hChecks' = 0
    /\ hNeedsRepair' \in BOOLEAN
    /\ UNCHANGED <<stopped, exceptHealth>>

\* Top of the loop: FileHealth(sp).  An error and a file that does not
\* need repair break out of the loop, whose end is the end of the function
\* (the deferred Stop calls run).
HealthCheck ==
    /\ hPc = "health"
    /\ hChecks < MaxHealthChecks
    /\ hChecks' = hChecks + 1
    /\ \E ok \in BOOLEAN :
          /\ ok \/ faults
          /\ IF ok /\ hNeedsRepair
             THEN hPc' = "select" /\ hTimer' = hTimer
             ELSE hPc' = "returned" /\ hTimer' = "stopped"
    /\ UNCHANGED <<hNeedsRepair, stopped, exceptHealth>>

\* case <-ticker.C: back to the top of the loop.
SelectTicker ==
    /\ hPc = "select"
    /\ hPc' = "health"
    /\ UNCHANGED <<hNeedsRepair, hTimer, hChecks, stopped, exceptHealth>>

\* Where the break of the deadline case leads: out of the select
\* statement, whose end is the end of the loop body.
AfterDeadlineBreak == "health"

\* case <-deadlineTimer.C: the value is received, a warning is logged, and
\* break.
SelectDeadline ==
    /\ hPc = "select"
    /\ hTimer = "fired"
    /\ hPc' = AfterDeadlineBreak
    /\ hTimer' = IF AfterDeadlineBreak = "returned" THEN "stopped"
                 ELSE "drained"
    /\ UNCHANGED <<hNeedsRepair, hChecks, stopped, exceptHealth>>

\* case <-s.staticTG.StopChan(): return.
SelectStop ==
    /\ hPc = "select"
    /\ stopped[Me]
    /\ hPc' = "returned"
    /\ hTimer' = "stopped"
    /\ UNCHANGED <<hNeedsRepair, hChecks, stopped, exceptHealth>>

\* The deadline passes: the timer sends on its channel, once.
DeadlineFires ==
    /\ hTimer = "armed"
    /\ hTimer' = "fired"
    /\ UNCHANGED <<hPc, hNeedsRepair, hChecks, stopped, exceptHealth>>

\* skyd has repaired the file.
FileRepaired ==
    /\ hPc \in {"health", "select"}
    /\ hNeedsRepair
    /\ hNeedsRepair' = FALSE
    /\ UNCHANGED <<hPc, hTimer, hChecks, stopped, exceptHealth>>

\* Close() of the Scanner.
HealthClose ==
    /\ ~stopped[Me]
    /\ stopped' = [stopped EXCEPT ![Me] = TRUE]
    /\ UNCHANGED <<healthVars, exceptHealth>>

NextHealth ==
    \/ WaitUntilHealthy
    \/ HealthCheck
    \/ SelectTicker
    \/ SelectDeadline
    \/ SelectStop
    \/ DeadlineFires
    \/ FileRepaired
    \/ HealthClose

SpecHealth == InitHealth /\ [][NextHealth]_vars

\* C23: managedWaitUntilHealthy returns as soon as skyd reports that the
\* file does not need repair, the deadline timer fires or the Scanner is
\* stopped: the step that receives from the deadline timer ends the wait,
\* also when the file still needs repair, and so does a FileHealth call
\* that finds the file in no need of repair.
C23_WaitEndsAtDeadline ==
    [][/\ (hTimer = "fired" /\ hTimer' # "fired") => hPc' = "returned"
       /\ (hPc = "health" /\ hChecks' # hChecks /\ ~hNeedsRepair)
             => hPc' = "returned"]_vars

\* C24: what UnlockSkylink returns does not change what the Scanner does
\* after a step that asks to continue: it waits until the file is healthy
\* when the step came to its unlock without an error, and sleeps
\* SleepBetweenPins when it came to it with one.
C24_UnlockErrorOnlyLogged ==
    [][\A s \in Servers :
          (scPc[s] = "unlock" /\ scPc'[s] # "unlock" /\ scCont[s])
          => /\ scErr[s] = Nil => scPc'[s] = "health"
             /\ scErr[s] # Nil => scPc'[s] = "sleepPin"]_vars

\* ------------------------------------------------------------------
\* The schedule of the Sweeper: schedule.Update and the goroutine that
\* each call starts.  The goroutine reads s.period when it makes its
\* ticker and reads s.cancelCh each time it comes to the select
\* statement; both reads are made without the mutex that Update holds.
\* ------------------------------------------------------------------

Periods == 1..MaxPeriod

\* No schedule yet, no sweep started; the store lists this server on one
\* skylink, which its skyd does not hold.
InitSchedule ==
    /\ records = [sl \in Skylinks |->
                    IF sl = SkylinkNames[1] THEN NewSkylink(Me) ELSE NoRecord]
    /\ now = 1
    /\ ret = Call("none", NoServer, NoSkylink, 0, Nil)
    /\ held = [s \in Servers |-> NoHold]
    /\ CacheIdle
    /\ SweeperIdle
    /\ ScannerIdle

\* isOpen(ch): not nil and not closed.  Nothing is ever sent on cancelCh,
\* so the receive in isOpen only succeeds on a closed channel.
isOpen(ch) == ch # 0 /\ ch \notin schClosed

\* schedule.Update, called by Sweeper.UpdateSchedule: under the mutex it
\* closes the open channel, stores the period and a new channel, and
\* starts the goroutine.
\* close(ch) panics on a nil channel and on a closed one; the set of the
\* closed channels keeps a mark of either.
NilClose == 0 - 2
DoubleClose == 0 - 1
Close(closed, ch) ==
    IF ch = 0 THEN closed \cup {NilClose}
    ELSE IF ch \in closed THEN closed \cup {DoubleClose}
    ELSE closed \cup {ch}

MutUpdateSchedule(period) ==
    /\ schCancelCh < MaxUpdates
    /\ schClosed' = IF isOpen(schCancelCh)
                    THEN Close(Close(schClosed, schCancelCh), schCancelCh)
                    ELSE schClosed
    /\ schPeriod' = period
    /\ schCancelCh' = schCancelCh + 1
    /\ tasks' = [tasks EXCEPT ![schCancelCh + 1] =
                    [pc |-> "spawned", period |-> 0, ch |-> 0]]
    /\ UNCHANGED <<sweptBy, storeVars, cacheVars, sweepVars, scanVars,
                   diffVars, arrVars, healthVars, statusVars, callVars>>
UpdateSchedule(period) ==
    /\ schCancelCh < MaxUpdates
    /\ schClosed' = IF isOpen(schCancelCh) THEN Close(schClosed, schCancelCh)
                    ELSE schClosed
    /\ schPeriod' = period
    /\ schCancelCh' = schCancelCh + 1
    /\ tasks' = [tasks EXCEPT ![schCancelCh + 1] =
                    [pc |-> "spawned", period |-> 0, ch |-> 0]]
    /\ UNCHANGED <<sweptBy, storeVars, cacheVars, sweepVars, scanVars,
                   diffVars, arrVars, healthVars,
                   statusVars, callVars>>

\* t := time.NewTicker(s.period): the goroutine reads the period that is
\* stored when it comes to run.
TaskNewTicker(i) ==
    /\ tasks[i].pc = "spawned"
    /\ tasks' = [tasks EXCEPT ![i].pc = "loop", ![i].period = schPeriod]
    /\ UNCHANGED <<schPeriod, schCancelCh, schClosed, sweptBy, storeVars,
                   cacheVars, sweepVars, scanVars, diffVars, arrVars,
                   healthVars,
                   statusVars, callVars>>

\* Entering the select statement evaluates its channel operands: the
\* goroutine waits on the channel that s.cancelCh holds at that moment.
TaskSelect(i) ==
    /\ tasks[i].pc = "loop"
    /\ tasks' = [tasks EXCEPT ![i].pc = "select", ![i].ch = schCancelCh]
    /\ UNCHANGED <<schPeriod, schCancelCh, schClosed, sweptBy, storeVars,
                   cacheVars, sweepVars, scanVars, diffVars, arrVars,
                   healthVars,
                   statusVars, callVars>>

\* case <-t.C: the ticker delivers a tick.
TaskTick(i) ==
    /\ tasks[i].pc = "select"
    /\ tasks' = [tasks EXCEPT ![i].pc = "sweep"]
    /\ UNCHANGED <<schPeriod, schCancelCh, schClosed, sweptBy, storeVars,
                   cacheVars, sweepVars, scanVars, diffVars, arrVars,
                   healthVars,
                   statusVars, callVars>>

\* The threadedPerformSweep goroutines that are followed next to the
\* schedule.
SchedSweeps == {1}

\* sweeper.Sweep(), which starts a threadedPerformSweep goroutine and
\* returns, then back to the top of the loop.
TaskSweep(i) ==
    /\ tasks[i].pc = "sweep"
    /\ \E g \in SchedSweeps :
          /\ swPc[g] = "idle"
          /\ swPc' = [swPc EXCEPT ![g] = "check"]
    /\ sweptBy' = i
    /\ tasks' = [tasks EXCEPT ![i].pc = "loop"]
    /\ UNCHANGED <<schPeriod, schCancelCh, schClosed, storeVars, cacheVars,
                   status, sweepLocals, rbErr, scanVars, diffVars, arrVars,
                   healthVars, statusVars, callVars>>

\* case <-s.cancelCh: the channel the goroutine waits on is closed.
TaskCancelled(i) ==
    /\ tasks[i].pc = "select"
    /\ tasks[i].ch \in schClosed
    /\ tasks' = [tasks EXCEPT ![i].pc = "returned"]
    /\ UNCHANGED <<schPeriod, schCancelCh, schClosed, sweptBy, storeVars,
                   cacheVars, sweepVars, scanVars, diffVars, arrVars,
                   healthVars,
                   statusVars, callVars>>

NextSchedule ==
    \/ \E period \in Periods : UpdateSchedule(period)
    \/ \E i \in 1..MaxUpdates :
          \/ TaskNewTicker(i)
          \/ TaskSelect(i)
          \/ TaskTick(i)
          \/ TaskSweep(i)
          \/ TaskCancelled(i)
    \/ \E g \in SchedSweeps :
          \/ SweepCheck(g)
          \/ SweepStart(g)
          \/ SweepRebuild(g)
          \/ SweepRead(g)
          \/ SweepAwait(g)
          \/ SweepDiff(g)
          \/ SweepRemove(g)
          \/ SweepAdd(g)
          \/ SweepFinalize(g)
    \/ \E ok \in BOOLEAN : RebuildEnds(ok)

SpecSchedule == InitSchedule /\ [][NextSchedule]_vars

\* C25: once a later UpdateSchedule call has returned, the timer task of
\* an earlier call is stopping: when it waits in its select statement, it
\* waits on a channel that is closed, so at most the task of the latest
\* call goes on to trigger sweeps.
C25_OneLiveTimerTask ==
    \A i \in 1..MaxUpdates :
        (i < schCancelCh /\ tasks[i].pc = "select")
        => tasks[i].ch \in schClosed

\* C26: a caller that ran a rebuild, whether its walk succeeded or failed,
\* returns with the channel of the rebuild closed, so that no rebuild is
\* marked in progress any more.
C26_RebuildEndsClosed ==
    [][\A p \in Callers :
          (cPc[p] \in {"walk", "end_check", "end_close"}
              /\ cPc'[p] \in {"done", "critical"})
          => rebuildCh' \in chClosed']_vars

\* ------------------------------------------------------------------
\* Unpin of the skyd client, next to the calls on the cache.
\* ------------------------------------------------------------------

ErrSkylinkBlocked == "skylink is blocked"
ErrUnpin == "failed to unpin"

\* What SkynetSkylinkUnpinPost can return.
UnpinOutcomes == {Nil, ErrSkylinkBlocked, ErrUnpin}

\* The condition under which Unpin calls Remove:
\* err != nil || strings.Contains(err.Error(), ErrSkylinkBlocked.Error()).
\* With a nil err the second operand is evaluated, and err.Error() on the
\* nil interface value panics.
UnpinCondition(err) == IF err # Nil THEN "true" ELSE Panic

\* The files skyd holds once it has unpinned a skylink: none of them has it.
SkydUnpinned(fs, sl) == [d \in Dirs |-> fs[d] \ {sl}]

\* Unpin(skylink): err := SkynetSkylinkUnpinPost(skylink), the call to skyd.
\* When skyd answers without error it has unpinned the skylink.
UnpinPost(sl, err) ==
    /\ unpinCall.pc = "idle"
    /\ unpinCall' = [pc |-> "remove", sl |-> sl, err |-> err]
    /\ fsFiles' = IF err = Nil
                  THEN [fsFiles EXCEPT ![Me] = SkydUnpinned(fsFiles[Me], sl)]
                  ELSE fsFiles
    /\ UNCHANGED <<skylinks, diffVars, cPc, cacheLocals, rebuildCh, chClosed,
                   chMade, storeVars, sweepVars, scanVars, arrVars,
                   healthVars, schedVars, statusVars, pinCall, pinReq, scRes,
                   otherCh>>

\* The rest of Unpin: the condition is evaluated, Remove deletes the
\* skylink from the map, under the mutex, and err is returned.
UnpinRemove ==
    /\ unpinCall.pc = "remove"
    /\ IF UnpinCondition(unpinCall.err) = "true"
       THEN /\ skylinks' = [skylinks EXCEPT ![Me] = @ \ {unpinCall.sl}]
            /\ unpinRes' = unpinCall.err
       ELSE /\ skylinks' = skylinks
            /\ unpinRes' = UnpinCondition(unpinCall.err)
    /\ unpinCall' = NoCall
    /\ UNCHANGED <<dIn, dUnknown, dMissing, cPc, cacheLocals, rebuildCh,
                   chClosed, chMade, fsFiles, storeVars, sweepVars, scanVars,
                   arrVars, healthVars, schedVars, statusVars, pinCall,
                   pinReq, scRes, otherCh>>

\* skyd holds files already when the client starts, each in the directory
\* of its skylink.
InitSkydClient ==
    /\ StoreInit
    /\ skylinks = [s \in Servers |-> {}]
    /\ rebuildCh = 0
    /\ chClosed = {0}
    /\ chMade = 0
    /\ fsFiles \in [Servers -> [Dirs -> SUBSET CacheSkylinks]]
    /\ \A s \in Servers \ {Me} : \A d \in Dirs : fsFiles[s][d] = {}
    /\ \A d \in Dirs : \A sl \in fsFiles[Me][d] : HomeDir(sl) = d
    /\ NoCacheCalls
    /\ SweeperIdle
    /\ ScannerIdle

NextSkydClient ==
    \/ NextPinnedSet
    \/ \E sl \in CacheSkylinks, err \in UnpinOutcomes : UnpinPost(sl, err)
    \/ UnpinRemove

SpecSkydClient == InitSkydClient /\ [][NextSkydClient]_vars

\* C27: Unpin takes the skylink out of the cache when the unpin call of
\* skyd succeeded or reported the skylink as blocked, and leaves the cache
\* as it was when the call failed in another way.
C27_UnpinUpdatesCache ==
    [][UnpinRemove =>
          IF unpinCall.err \in {Nil, ErrSkylinkBlocked}
          THEN skylinks'[Me] = skylinks[Me] \ {unpinCall.sl}
          ELSE skylinks' = skylinks]_vars

\* The positions of the single-candidate step after FindAndLockUnderpinned
\* returned a skylink: the deferred UnlockSkylink is registered and the
\* step has not returned.
InStep == {"pin", "pinPost", "pinAdd", "markAlready", "mark", "unlock"}

\* C28: the single-candidate step only returns, after FindAndLockUnderpinned
\* handed it a skylink, through the deferred UnlockSkylink call for that
\* skylink, which leaves the record not locked by this server; and outside
\* of the step, between iterations and after a scan, whether the scan
\* ended with a return or with a panic of the step, no record is locked by
\* the server of the Scanner.
C28_StepUnlocks ==
    /\ [](\A s \in Servers : (scPc[s] \notin InStep \/ Crashed(s)) =>
             \A sl \in DOMAIN records : records[sl].lockedBy # s)
    /\ [][\A s \in Servers :
             (scPc[s] \in InStep /\ scPc'[s] \notin InStep)
             => /\ scPc[s] = "unlock"
                /\ records'[scSl[s]].lockedBy # s]_vars

\* C29: a Scanner whose step pinned an object and listed its server on the
\* record goes from the step to the wait for the object to be healthy: it
\* does not come to the next FindAndLockUnderpinned by another way.
C29_WaitsBeforeNextObject ==
    [][\A s \in Servers :
          (/\ scPc[s] = "unlock"
           /\ scPc'[s] # "unlock"
           /\ pinCalls[s][scSl[s]] > 0
           /\ s \in records[scSl[s]].servers)
          => scPc'[s] = "health"]_vars

\* ------------------------------------------------------------------
\* The sweeps of a service that keeps running: the goroutine of a sweep
\* is scheduled until it returns, the calls it makes to the store return,
\* and the rebuild in the background comes to its end.
\* ------------------------------------------------------------------

\* The sweeps that have not asked for their rebuild yet.
BeforeRebuild == {g \in Sweeps : swPc[g] \in {"check", "start", "rebuild"}}

\* Sweep(), called while the channels of the model last for the rebuilds
\* that the sweeps under way can still start.
SweepCall(g) ==
    /\ chMade + Cardinality(BeforeRebuild) < MaxChannels
    /\ Sweep(g)

\* One step of the goroutine threadedPerformSweep.
SweepStep(g) ==
    \/ SweepCheck(g)
    \/ SweepStart(g)
    \/ SweepRebuild(g)
    \/ SweepRead(g)
    \/ SweepAwait(g)
    \/ SweepDiff(g)
    \/ SweepRemove(g)
    \/ SweepAdd(g)
    \/ SweepFinalize(g)

NextSweeperLive ==
    \/ \E g \in Sweeps : SweepCall(g)
    \/ \E g \in Sweeps : SweepStep(g)
    \/ \E ok \in BOOLEAN : RebuildEnds(ok)
    \/ SweeperTick

\* As InitSweeper, with the skylinks of WorkerSkylinks.
InitSweeperLive ==
    /\ records \in [WorkerSkylinks \cup {NoSkylink} ->
                      {NoRecord, NewSkylink(Me), NewSkylink(Other)}]
    /\ records[NoSkylink] = NoRecord
    /\ now = 1
    /\ ret = Call("none", NoServer, NoSkylink, 0, Nil)
    /\ held = [s \in Servers |-> NoHold]
    /\ skylinks = [s \in Servers |-> {}]
    /\ rebuildCh = 0
    /\ chClosed = {0}
    /\ chMade = 0
    /\ fsFiles \in [Servers -> [Dirs -> SUBSET WorkerSkylinks]]
    /\ \A s \in Servers \ {Me} : \A d \in Dirs : fsFiles[s][d] = {}
    /\ \A d \in Dirs : \A sl \in fsFiles[Me][d] : HomeDir(sl) = d
    /\ NoCacheCalls
    /\ SweeperIdle
    /\ ScannerIdle

SpecSweeperLive ==
    /\ InitSweeperLive
    /\ [][NextSweeperLive]_vars
    /\ \A g \in Sweeps : WF_vars(SweepStep(g))
    /\ WF_vars(\E ok \in BOOLEAN : RebuildEnds(ok))

\* C30: a sweep that is past Start comes, whatever call fails on its way,
\* to its deferred Finalize: its goroutine has returned and InProgress is
\* false, so that the check of a later Sweep call lets it start.
C30_SweepFinalizes ==
    \A g \in Sweeps :
        (g \in Sweeping) ~> (swPc[g] = "idle" /\ ~status.InProgress)

\* C30: the rebuild failed, and the sweeps that were started have finalized:
\* no goroutine is left, the status shows a sweep that started and ended and
\* none in progress.
C30_Witness ==
    /\ rbErr[rebuildCh] = ErrWalk
    /\ \A g \in Sweeps : swPc[g] = "idle"
    /\ status.StartTime # ZeroTime
    /\ status.EndTime # ZeroTime
    /\ ~status.InProgress

(***************************************************************************)
(* More claims about the Sweeper.                                          *)
(***************************************************************************)
\* The errors of the two calls a sweep makes before it compares: the read
\* of the store and the rebuild of the cache.
EarlyFailures == {ErrFetchSkylinks, ErrRebuildCache}

\* C31: a sweep whose read of the store or whose rebuild failed is at its
\* deferred Finalize and nowhere else: the step that fails leaves the
\* store as it is, and the sweep does not come to RemoveServerFromSkylinks
\* or AddServerForSkylinks, the only steps of a sweep that write the store.
C31_FailedSweepWritesNothing ==
    /\ [](\A g \in Sweeps :
             swErr[g] \in EarlyFailures => swPc[g] = "finalize")
    /\ [][\A g \in Sweeps :
             /\ (swPc[g] \in {"read", "await"} /\ swPc'[g] = "finalize")
                => (records' = records /\ swErr'[g] \in EarlyFailures)
             /\ (swPc[g] = "finalize" /\ swPc'[g] # "finalize")
                => (records' = records /\ swPc'[g] = "idle")
             /\ (records' # records)
                => \E h \in Sweeps : swPc[h] \in {"remove", "add"}]_vars

\* C31: the rebuild of a sweep failed when the store lists, for this
\* server, a skylink that the cache does not hold: the sweep is at its
\* Finalize and the record still lists the server.
C31_Witness ==
    \E g \in Sweeps :
        /\ swPc[g] = "finalize"
        /\ swErr[g] = ErrRebuildCache
        /\ \E sl \in swDb[g] : sl \notin skylinks[Me] /\ Me \in records[sl].servers

\* ------------------------------------------------------------------
\* The status of the Sweeper: Start and Finalize write its fields one by
\* one under the mutex of the status, Status copies them without it.
\* ------------------------------------------------------------------

StatusFields == {"InProgress", "Error", "StartTime", "EndTime"}

\* The assignments of Start and of Finalize(err), in the order of the code.
StartWrites(t) ==
    <<[field |-> "InProgress", value |-> TRUE],
      [field |-> "Error", value |-> Nil],
      [field |-> "StartTime", value |-> t],
      [field |-> "EndTime", value |-> ZeroTime]>>

FinalizeWrites(err, t) ==
    <<[field |-> "InProgress", value |-> FALSE],
      [field |-> "EndTime", value |-> t],
      [field |-> "Error", value |-> err]>>

WritesOf(op, t) ==
    IF op = "Start" THEN StartWrites(t) ELSE FinalizeWrites(DeferredErr, t)

InitStatus == StoreInit /\ CacheIdle /\ SweeperIdle /\ ScannerIdle

exceptStatus == <<records, ret, held, cacheVars, swErr, swDb, swUnknown,
                  swMissing, swRes, rbErr, scanVars, diffVars, arrVars,
                  healthVars, schedVars, callVars>>

\* threadedPerformSweep reads InProgress, without the mutex, and goes on
\* to Start when it is false.
StatusCheck(g) ==
    /\ swPc[g] = "idle"
    /\ ~status.InProgress
    /\ swPc' = [swPc EXCEPT ![g] = "start"]
    /\ UNCHANGED <<status, now, statusVars, exceptStatus>>

\* Start takes the mutex: it returns when a sweep is in progress and
\* goes on to its assignments otherwise.
StartLock(g) ==
    /\ swPc[g] = "start"
    /\ wOp = NoWriter
    /\ IF status.InProgress
       THEN /\ swPc' = [swPc EXCEPT ![g] = "body"]
            /\ wOp' = wOp
       ELSE /\ swPc' = swPc
            /\ wOp' = [op |-> "Start", g |-> g]
    /\ UNCHANGED <<status, now, wPc, snap, snapRead, exceptStatus>>

\* The deferred Finalize takes the mutex.
FinalizeLock(g) ==
    /\ swPc[g] = "body"
    /\ wOp = NoWriter
    /\ wOp' = [op |-> "Finalize", g |-> g]
    /\ UNCHANGED <<status, now, swPc, wPc, snap, snapRead, exceptStatus>>

\* The next assignment of the operation that holds the mutex; after the
\* last one it releases the mutex and returns.
StatusWrite ==
    /\ wOp # NoWriter
    /\ LET ws == WritesOf(wOp.op, now)
           w == ws[wPc + 1]
       IN  /\ status' = [status EXCEPT ![w.field] = w.value]
           /\ IF wPc + 1 = Len(ws)
              THEN /\ wPc' = 0
                   /\ wOp' = NoWriter
                   /\ swPc' = [swPc EXCEPT ![wOp.g] =
                                 IF wOp.op = "Start" THEN "body" ELSE "idle"]
              ELSE /\ wPc' = wPc + 1
                   /\ UNCHANGED <<wOp, swPc>>
    /\ UNCHANGED <<now, snap, snapRead, exceptStatus>>

\* Status(): st := (*s.staticStatus).Status copies the struct while no
\* mutex is held, so the writes of Start and Finalize can fall between the
\* copies of two fields; the order of the copies is up to the build.
StatusCopy(f) ==
    /\ f \notin snapRead
    /\ snap' = [snap EXCEPT ![f] = status[f]]
    /\ snapRead' = snapRead \cup {f}
    /\ UNCHANGED <<status, now, swPc, wOp, wPc, exceptStatus>>

\* Status() returns the copy; the next call starts a new one.
StatusReturn ==
    /\ snapRead = StatusFields
    /\ snapRead' = {}
    /\ snap' = NoStatus
    /\ UNCHANGED <<status, now, swPc, wOp, wPc, exceptStatus>>

\* Time passes.
StatusTick ==
    /\ now < MaxSweepTime
    /\ now' = now + 1
    /\ UNCHANGED <<status, swPc, statusVars, exceptStatus>>

NextStatus ==
    \/ \E g \in Sweeps : StatusCheck(g)
    \/ \E g \in Sweeps : StartLock(g)
    \/ \E g \in Sweeps : FinalizeLock(g)
    \/ StatusWrite
    \/ \E f \in StatusFields : StatusCopy(f)
    \/ StatusReturn
    \/ StatusTick

SpecStatus == InitStatus /\ [][NextStatus]_vars

\* C32: a snapshot that Status returns with InProgress true has no error
\* and a zero EndTime, as the status has after a whole Start.
C32_SnapshotIsWhole ==
    (snapRead = StatusFields /\ snap.InProgress)
    => (snap.Error = Nil /\ snap.EndTime = ZeroTime)

\* C33: whatever Update calls are made, close is never called on a cancel
\* channel that is closed already.
C33_NoDoubleClose == DoubleClose \notin schClosed

\* C33: three Update calls were made: the second and the third each closed
\* the channel of the call before, once.
C33_Witness ==
    /\ schCancelCh = 3
    /\ schClosed = {1, 2}

(***************************************************************************)
(* More claims about the Scanner.                                          *)
(***************************************************************************)
\* C34: a FindAndLockUnderpinned that finds nothing or fails, and a Pin
\* that fails with an unrecoverable error, end the inner loop: the Scanner
\* goes, through the deferred unlock in the second case, to the sleep
\* between two scans, and from there it only comes to the next
\* FindAndLockUnderpinned through the start of the next scan.
C34_EndOfInnerLoop ==
    [][\A s \in Servers :
          /\ (scPc[s] = "find" /\ scPc'[s] # "find"
                 /\ scErr'[s] \in {ErrStore, ErrSizeOfMissing,
                                   ErrNoUnderpinnedSkylinks})
             => scPc'[s] = "sleepScan"
          /\ (scPc[s] = "pinPost" /\ scErr'[s] = ErrUnrecoverable)
             => (scPc'[s] = "unlock" /\ ~scCont'[s])
          /\ (scPc[s] = "unlock" /\ scPc'[s] # "unlock" /\ ~scCont[s])
             => scPc'[s] = "sleepScan"
          /\ (scPc[s] = "sleepScan" /\ scPc'[s] # "sleepScan")
             => scPc'[s] \in {"rebuild", "exited"}
          /\ (scPc[s] # "find" /\ scPc'[s] = "find")
             => scPc[s] = "check"]_vars

\* C34: a Pin that failed with an unrecoverable error has ended the inner
\* loop: the Scanner sleeps until the next scan, the candidate is unlocked
\* and does not list the server.
C34_Witness ==
    /\ scPc[Me] = "sleepScan"
    /\ scSl[Me] # NoSkylink
    /\ ~scCont[Me]
    /\ ~scDryRun[Me]
    /\ pinCalls[Me][scSl[Me]] > 0
    /\ Me \notin records[scSl[Me]].servers
    /\ records[scSl[Me]].lockedBy = NoServer

\* C35: when Pin reports that skyd pins the locked skylink already, the
\* step calls AddServerForSkylink(sl, server, false): unless the store
\* fails the call, the record lists the server afterwards and keeps its
\* pinned flag.  The step asks to continue, and after the unlock the
\* Scanner goes, by the health wait or by the sleep between pins, to the
\* check at the top of the inner loop.
C35_AlreadyPinnedIsRecorded ==
    [][\A s \in Servers :
          LET sl == scSl[s]
          IN  /\ (scPc[s] \in {"pin", "pinAdd"} /\ scPc'[s] = "markAlready")
                 => (IsPinned(s, sl)' /\ sl \in fsFiles[s][HomeDir(sl)])
              /\ (scPc[s] = "markAlready" /\ scPc'[s] # "markAlready")
                 => /\ scPc'[s] = "unlock"
                    /\ scCont'[s]
                    /\ records'[sl].pinned = records[sl].pinned
                    /\ IF scErr'[s] = Nil
                       THEN records'[sl].servers =
                               records[sl].servers \cup {s}
                       ELSE faults /\ records' = records
              /\ (scPc[s] = "unlock" /\ scPc'[s] # "unlock" /\ scCont[s])
                 => scPc'[s] \in {"health", "sleepPin"}
              /\ (scPc[s] \in {"health", "sleepPin"} /\ scPc'[s] # scPc[s]
                     /\ ~stopped[s])
                 => scPc'[s] = "check"]_vars

\* C35: the step that found its candidate pinned by skyd already has
\* listed the server and asks to continue with the next candidate.
C35_Witness ==
    /\ scPc[Me] = "unlock"
    /\ scCont[Me]
    /\ scErr[Me] = Nil
    /\ pinCalls[Me][scSl[Me]] = 1
    /\ IsPinned(Me, scSl[Me])
    /\ Me \in records[scSl[Me]].servers
    /\ records[scSl[Me]].pinned = "true"
    /\ records[scSl[Me]].lockedBy = Me

\* ------------------------------------------------------------------
\* Sweeps next to users that pin: a user pins a file on the skyd of this
\* server and tells the service with POST /pin, which writes the store and
\* does not touch the cache.
\* ------------------------------------------------------------------

\* The user's upload: skyd holds a file with the skylink.
UserPinsOnSkyd(sl) ==
    /\ sl \notin fsFiles[Me][HomeDir(sl)]
    /\ fsFiles' = [fsFiles EXCEPT ![Me][HomeDir(sl)] = @ \cup {sl}]
    /\ UNCHANGED <<storeVars, skylinks, rebuildCh, chClosed, chMade, cPc,
                   cSls, cDirs, cCh, cRes, sweepVars, scanVars, asideVars>>

\* The request is answered: with WriteSuccess when err is nil.
Answered(err) == [NoCall EXCEPT !.err = err]

\* pinPOST, up to the answer of CreateSkylink: the call fails and the
\* handler answers with the error, or it inserts the document, or the
\* document exists and the handler goes on to AddServerForSkylink.
PinPOST(sl) ==
    /\ pinReq.pc = "idle"
    /\ \/ /\ records' = records
          /\ pinReq' = Answered(ErrStore)
       \/ /\ ~records[sl].exists
          /\ records' = [records EXCEPT ![sl] = NewSkylink(Me)]
          /\ pinReq' = Answered(Nil)
       \/ /\ records[sl].exists
          /\ records' = records
          /\ pinReq' = [pc |-> "add", sl |-> sl, err |-> ErrSkylinkExists]
    /\ UNCHANGED <<now, ret, held, cacheVars, sweepVars, scanVars, diffVars,
                   arrVars, healthVars, schedVars, statusVars, unpinCall,
                   pinCall, scRes, otherCh>>

\* The rest of pinPOST: AddServerForSkylink(sl, server, true), and the
\* answer, an error when the call failed.
PinPOSTAdd ==
    /\ pinReq.pc = "add"
    /\ \/ /\ records' = AddServerForSkylinks(records, {pinReq.sl}, Me, TRUE)
          /\ pinReq' = Answered(AddServerErr(records, {pinReq.sl}))
       \/ /\ records' = records
          /\ pinReq' = Answered(ErrStore)
    /\ UNCHANGED <<now, ret, held, cacheVars, sweepVars, scanVars, diffVars,
                   arrVars, healthVars, schedVars, statusVars, unpinCall,
                   pinCall, scRes, otherCh>>

NextSweepAndPins ==
    \/ \E g \in Sweeps : SweepCall(g)
    \/ \E g \in Sweeps : SweepStep(g)
    \/ \E ok \in BOOLEAN : RebuildEnds(ok)
    \/ \E sl \in WorkerSkylinks : UserPinsOnSkyd(sl)
    \/ \E sl \in WorkerSkylinks : PinPOST(sl)
    \/ PinPOSTAdd

SpecSweepAndPins == InitSweeperLive /\ [][NextSweepAndPins]_vars

\* C36: a step that takes this server off a record is not made while the
\* skyd of this server holds the skylink of the record.
C36_HeldSkylinkKeepsServer ==
    [][\A sl \in WorkerSkylinks :
          (Me \in records[sl].servers /\ Me \notin records'[sl].servers)
          => sl \notin fsFiles[Me][HomeDir(sl)]]_vars

\* ------------------------------------------------------------------
\* Rebuilds of the cache next to Pin calls of the skyd client.
\* ------------------------------------------------------------------

\* The skylinks on the files skyd holds, in whatever directory.
HeldBySkyd(fs) == UNION {fs[d] : d \in Dirs}

\* Pin(skylink), up to the call to skyd: isPinned reads the cache, and a
\* skylink it holds ends the call with ErrSkylinkAlreadyPinned.
ClientPin(sl) ==
    /\ pinCall.pc = "idle"
    /\ ~IsPinned(Me, sl)
    /\ pinCall' = [pc |-> "post", sl |-> sl, err |-> Nil]
    /\ UNCHANGED <<skylinks, fsFiles, cPc, cacheLocals, rebuildCh, chClosed,
                   chMade, storeVars, sweepVars, scanVars, diffVars, arrVars,
                   healthVars, schedVars, statusVars, unpinCall, pinReq,
                   scRes, otherCh>>

\* sp, err := SkynetSkylinkPinLazyPost(skylink): the call to skyd.  Pin
\* goes on to Add when err is nil or holds ErrSkylinkAlreadyPinned, and
\* returns otherwise.
ClientPinPost(err) ==
    /\ pinCall.pc = "post"
    /\ err \in PinPostOutcomes(fsFiles[Me], pinCall.sl)
    /\ fsFiles' = [fsFiles EXCEPT
                     ![Me] = SkydPinned(fsFiles[Me], pinCall.sl, err)]
    /\ pinCall' = IF err \in {Nil, ErrSkylinkAlreadyPinned}
                  THEN [pinCall EXCEPT !.pc = "add", !.err = err]
                  ELSE NoCall
    /\ UNCHANGED <<skylinks, cPc, cacheLocals, rebuildCh, chClosed, chMade,
                   storeVars, sweepVars, scanVars, diffVars, arrVars,
                   healthVars, schedVars, statusVars, unpinCall, pinReq,
                   scRes, otherCh>>

\* c.staticSkylinksCache.Add(skylink), under the mutex of the cache, and
\* the return.
ClientPinAdd ==
    /\ pinCall.pc = "add"
    /\ skylinks' = [skylinks EXCEPT ![Me] = @ \cup {pinCall.sl}]
    /\ pinCall' = NoCall
    /\ UNCHANGED <<fsFiles, cPc, cacheLocals, rebuildCh, chClosed, chMade,
                   storeVars, sweepVars, scanVars, diffVars, arrVars,
                   healthVars, schedVars, statusVars, unpinCall, pinReq,
                   scRes, otherCh>>

PinOutcomes == {Nil, ErrSkylinkAlreadyPinned, ErrPin}

NextCacheAndPins ==
    \/ NextCache
    \/ \E sl \in CacheSkylinks : ClientPin(sl)
    \/ \E err \in PinOutcomes : ClientPinPost(err)
    \/ ClientPinAdd

SpecCacheAndPins == InitCache /\ [][NextCacheAndPins]_vars

\* C37: the replacement of the cache at the end of a rebuild keeps every
\* skylink that the cache holds and that skyd pins, such as one that a Pin
\* call added while the rebuild was walking.
C37_RebuildKeepsPinned ==
    [][\A p \in Callers : ReplaceCache(p) =>
          \A sl \in CacheSkylinks :
              (sl \in skylinks[Me] /\ sl \in HeldBySkyd(fsFiles[Me]))
              => sl \in skylinks'[Me]]_vars

\* ------------------------------------------------------------------
\* Scanners whose locks last as long as they are held.
\* ------------------------------------------------------------------

\* At time t no lock that a server holds is free for the taking.
LocksLast(recs, t) ==
    \A sl \in DOMAIN recs :
        (recs[sl].exists /\ recs[sl].lockedBy # NoServer)
        => ~UnlockedFilter(recs[sl], t)

\* Time passes, but not beyond the expiry of a lock that is held.
ScannerTickWithinLocks ==
    /\ LocksLast(records, now + 1)
    /\ ScannerTick

\* The steps of a Scanner whose lock is never taken over: UnlockSkylink
\* then finds its lock, the step returns no error and the sleep of
\* SleepBetweenPins is not reached.
ScannerStepWithinLocks(s) ==
    \/ ScanRebuild(s)
    \/ ScanAwait(s)
    \/ ScanRefreshDryRun(s)
    \/ ScanRefreshMinPinners(s)
    \/ ScanCheckStop(s)
    \/ ScanFind(s)
    \/ ScanPin(s)
    \/ ScanPinPost(s)
    \/ ScanPinAdd(s)
    \/ ScanMarkAlready(s)
    \/ ScanMark(s)
    \/ ScanUnlock(s)
    \/ ScanWaitUntilHealthy(s)
    \/ ScanSleepBetweenScans(s)

NextScannerWithinLocks ==
    \/ \E s \in Servers : ScannerStepWithinLocks(s)
    \/ \E s \in Servers : \E ok \in BOOLEAN : ScanRebuildEnds(s, ok)
    \/ \E s \in Servers : ScanClose(s)
    \/ ScannerTickWithinLocks

SpecScannerWithinLocks == InitScanner /\ [][NextScannerWithinLocks]_vars

\* No step of these Scanners ends with an error and continueScanning.
SleepBetweenPinsUnreached == \A s \in Servers : scPc[s] # "sleepPin"

\* C38: while no held lock expires, a step of a Scanner that adds its
\* server to a record leaves the record with at most as many servers as
\* the min_pinners that Scanner holds: with one min_pinners on every
\* server no record is raised above it.
C38_ScannersStopAtMinPinners ==
    [][\A sl \in Skylinks, s \in ScannerServers :
          (s \in records'[sl].servers /\ s \notin records[sl].servers)
          => Cardinality(records'[sl].servers) <= scMinPinners[s]]_vars

\* Both Scanners run, min_pinners is 1 and one of them has added its
\* server to a record that listed none; the other has scanned and found
\* nothing to pin.
C38_Witness ==
    /\ \A s \in ScannerServers : scMinPinners[s] = 1
    /\ \E sl \in Skylinks :
          /\ Cardinality(records[sl].servers) = 1
          /\ \E s \in ScannerServers :
                /\ records[sl].servers = {s}
                /\ pinCalls[s][sl] = 1
                /\ \E o \in ScannerServers \ {s} :
                      /\ scPc[o] = "sleepScan"
                      /\ pinCalls[o][sl] = 0

\* ------------------------------------------------------------------
\* The Scanners of a service that is shut down.
\* ------------------------------------------------------------------

\* Close() while the Scanner has a Pin call left among those the model
\* follows: the step it may be in can still make its call.
ScanCloseInTime(s) ==
    /\ \A sl \in Skylinks : pinCalls[s][sl] < MaxPinCalls
    /\ ScanClose(s)

\* A select takes the case of the closed stop channel and the task returns.
StopReturn(s) ==
    /\ stopped[s]
    /\ ScannerStep(s)
    /\ scPc'[s] = "exited"

\* The Scanners of a cluster whose store has dry_run off and a min_pinners
\* in range: the Scanners pin, wait and sleep before they are stopped.
InitScannerStop ==
    /\ InitScanner
    /\ MinPinnersValid(conf.minPinners)
    /\ ~conf.dryRun

NextScannerStop ==
    \/ \E s \in Servers : ScannerStep(s)
    \/ \E s \in Servers : \E ok \in BOOLEAN : ScanRebuildEnds(s, ok)
    \/ \E s \in Servers : ScanCloseInTime(s)
    \/ ScannerTick

\* Calls return and timers fire; a select that is entered again and again
\* with the stop channel closed takes that case in the end, as the runtime
\* chooses among the ready cases at random.
SpecScannerStop ==
    /\ InitScannerStop
    /\ [][NextScannerStop]_vars
    /\ \A s \in Servers : WF_vars(ScannerStep(s))
    /\ \A s \in Servers : SF_vars(StopReturn(s))

\* The task of a Scanner is over: it returned, or it ended in a panic.
ScanTerminated(s) == scPc[s] = "exited" \/ Crashed(s)

BuiltMinPinners == {defaultMinPinners, maxPinnersMinValue + 2}

\* NewScanner(db, logger, minPinners, ...) and Start() on a server whose
\* Scanner does not run yet.
StartScanner(s, mp) ==
    /\ scPc[s] = "off"
    /\ ~faults
    /\ scMinPinners' = [scMinPinners EXCEPT ![s] = mp]
    /\ scPc' = [scPc EXCEPT ![s] = "rebuild"]
    /\ UNCHANGED <<records, now, skylinks, fsFiles, scanStep, scDryRun, conf,
                   faults, pinCalls, stopped, exceptScanner>>

\* The settings SetConfigValue writes and the values it is given for them.
ConfKeys == {"dry_run", "min_pinners"}
ConfValues(key) == IF key = "dry_run" THEN BOOLEAN ELSE ConfMinPinners

\* SetConfigValue(key, value): the document of the configuration
\* collection that ConfigValue reads for the key gets another value.
SetConfigValue(key, value) ==
    /\ value \in ConfValues(key)
    /\ conf' = IF key = "dry_run" THEN [conf EXCEPT !.dryRun = value]
               ELSE [conf EXCEPT !.minPinners = value]
    /\ conf' # conf
    /\ UNCHANGED <<records, now, skylinks, fsFiles, scPc, scanStep, scDryRun,
                   scMinPinners, faults, pinCalls, stopped, exceptScanner>>

\* The Scanners of a cluster whose skyds hold no file yet and whose store
\* has dry_run off; the other server's Scanner is started later.
InitScannerConf ==
    /\ InitScanner
    /\ \A s \in Servers : \A d \in Dirs : fsFiles[s][d] = {}
    /\ scPc[Other] = "off"
    /\ ~conf.dryRun

\* The Scanners of a service that is not shut down, next to the writes of
\* the settings.
NextScannerConf ==
    \/ \E s \in Servers : ScannerStep(s)
    \/ \E s \in Servers : \E ok \in BOOLEAN : ScanRebuildEnds(s, ok)
    \/ ScannerTick
    \/ \E s \in ScannerServers, mp \in BuiltMinPinners : StartScanner(s, mp)
    \/ \E key \in ConfKeys :
          \E value \in ConfValues(key) : SetConfigValue(key, value)

SpecScannerConf == InitScannerConf /\ [][NextScannerConf]_vars

\* C40: a Scanner that is about to call FindAndLockUnderpinned has the
\* min_pinners of its construction or one of 1..10; its min_pinners only
\* changes in managedRefreshMinPinners, to the value of the store and only
\* when that value is in 1..10.
C40_MinPinnersOfScan ==
    /\ [](\A s \in ScannerServers :
            scPc[s] = "find" =>
                \/ scMinPinners[s] \in BuiltMinPinners
                \/ MinPinnersValid(scMinPinners[s]))
    /\ [][\A s \in ScannerServers :
             (scPc[s] # "off" /\ scMinPinners'[s] # scMinPinners[s])
             => /\ scPc[s] = "refreshMinPinners"
                /\ conf.minPinners >= minPinnersMinValue
                /\ conf.minPinners <= maxPinnersMinValue
                /\ scMinPinners'[s] = conf.minPinners]_vars

\* This server's Scanner has pinned, is in a later step of its scans with
\* the 2 it read from the store, and the store now has a value out of
\* range; the other server's Scanner scans with the value it was built
\* with.
C40_Witness ==
    /\ scPc[Me] = "find"
    /\ scMinPinners[Me] = 2
    /\ ~MinPinnersValid(conf.minPinners)
    /\ \E sl \in Skylinks : pinCalls[Me][sl] = 1
    /\ scPc[Other] = "find"
    /\ scMinPinners[Other] = maxPinnersMinValue + 2
====
